---- MODULE Spec2Model ----
(***************************************************************************)
(* Refresh and station-tracking state machine of the weather               *)
(* representations of cockpitdecks_wm:                                     *)
(*   WeatherData          buttons/representation/weatherdata.py            *)
(*   WeatherMetarIcon     buttons/representation/weathermetar.py           *)
(*   WeatherStationPlot   buttons/representation/weatherstationplot.py     *)
(*   WeatherMetarIcon     buttons/representation/weathermetaricon.py       *)
(* One representation instance is modelled.  Its fields are the record     *)
(* `self`; the host (clock, aircraft position, redraw callers, the         *)
(* station-identifier variable) is the environment.                        *)
(*                                                                         *)
(* Python's None is modelled by a value of the type of the field it        *)
(* stands in: "None" for strings, NoTime for timestamps, NoMetar for the   *)
(* observation container and NoImage for images.                           *)
(***************************************************************************)
EXTENDS Integers, Sequences, FiniteSets, TLC

\* ------------------------------------------------------------- bounds
\* The clock is counted in units of half the staleness threshold and the
\* model stops the clock at MaxTime.
MaxTime == 3

\* ---------------------------------------------------------- constants
None == "None"
NoTime == -1

\* WeatherData.MIN_UPDATE, in clock units (weatherdata.py:79 sets it from the
\* refresh-location setting).
MIN_UPDATE == 2
\* WeatherData.MIN_DISTANCE_MOVE_KM (weatherdata.py:56).
MIN_DISTANCE_MOVE_KM == 0
\* WeatherData.DEFAULT_STATION (weatherdata.py:57).
DEFAULT_STATION == "EBBR"

\* The station database of avwx, cut down to two stations on a line.
Stations == {"EBBR", "EHAM"}
\* An identifier the station database does not know.
UnknownIcao == "ZZZZ"

\* Station.latitude / Station.longitude, as a coordinate on the line.
StationPos(icao) == IF icao = "EBBR" THEN 0 ELSE 2

\* Positions the host can report (sim/flightmodel/position/latitude,
\* longitude); FarAway is a position with no station within
\* max_coord_distance.
FarAway == 9
Positions == {0, 1, 2, FarAway}
NoPosition == -1

\* Report bodies the provider can return, named after the tokens the icon
\* rules look at:
\*   "CAVOK"   09008KT CAVOK 00/M01 Q1034 NOSIG
\*   "FG_NCD"  09008KT 0300 FG NCD 00/00 Q1034
Bodies == {"CAVOK", "FG_NCD"}

\* What the provider call can do: raise, report nothing, or deliver a body.
FetchOutcomes == Bodies \cup {"raise", "nodata"}
CreateOutcomes == {"ok", "raise"}

\* The three representation classes and, for weathermetaricon.py, its
\* display modes (self.show).
Classes == {"weathermetar", "weatherstationplot", "weathermetaricon"}

NoMetar == [icao |-> None, raw |-> None]
NoImage == [kind |-> None, icon |-> None, icao |-> None, raw |-> None]
EmptyImage == [kind |-> "empty", icon |-> None, icao |-> None, raw |-> None]

\* The exception select_weather_icon raises, as a result value.
KeyError == "KeyError"

\* ------------------------------------------------------ pure helpers

\* The stations the installed station database knows: a configuration
\* says whether it has the default station.
Database(cfg) == IF cfg.db_default THEN Stations ELSE Stations \ {DEFAULT_STATION}

\* Station.from_icao: the station, or no station for an unknown identifier
\* (the callers test the result against None).
from_icao(cfg, icao) == IF icao \in Database(cfg) THEN icao ELSE None

\* distance(origin, destination), on the line.
distance(a, b) == IF a >= b THEN a - b ELSE b - a

\* Station.nearest(lat, lon, max_coord_distance): the closest known station
\* in range (EBBR for positions 0 and 1 when the database has it, EHAM
\* otherwise), None when there is none.
nearest(cfg, pos) ==
    CASE pos \in {0, 1} /\ "EBBR" \in Database(cfg) -> "EBBR"
      [] pos \in {0, 1, 2} -> "EHAM"
      [] OTHER -> None

\* self.weather.get("station", DEFAULT_STATION)
configured_or_default(cfg) ==
    IF cfg.station = None THEN DEFAULT_STATION ELSE cfg.station

at_default_station(s, cfg) ==
    IF s.station # None
    THEN ~s._moved /\ s.station = configured_or_default(cfg)
    ELSE TRUE

\* has_metar: raw, data and summary all exist once a report was parsed.
has_metar(s) == s.metar # NoMetar /\ s.metar.raw # None

needs_update(s, now) ==
    \/ s.metar = NoMetar
    \/ s.metar.raw = None
    \/ s._last_updated = NoTime
    \/ now - s._last_updated > MIN_UPDATE

\* -------------------------------------------------------- get_station

\* A get_station that suggests the default station whenever the position
\* is missing; NoPositionSuggestsDefault does not hold of it.
suggest_default_always(s, cfg) == from_icao(cfg, configured_or_default(cfg))

\* get_station without coordinates:
\*   if self.station is None: return Station.from_icao(icao)
\*   return None
suggest_default(s, cfg) ==
    IF s.station = None
    THEN from_icao(cfg, configured_or_default(cfg))
    ELSE None

\* A get_station that assigns the outcome of the movement test to _moved
\* instead of only ever setting it; MovedIsSticky does not hold of it.
moved_overwritten(moved, dist) == dist > MIN_DISTANCE_MOVE_KM

\* A get_station that never marks the movement;
\* ReplacementOnlyAfterMove does not hold of it.
moved_unmarked(moved, dist) == moved

\* get_station, movement test:  if dist > MIN_DISTANCE_MOVE_KM: _moved = True
moved_after(moved, dist) == moved \/ dist > MIN_DISTANCE_MOVE_KM

\* get_station.  Result: the instance after the call, the station it
\* proposes (or None), and whether it raised.  Unpacking the result of
\* Station.nearest raises TypeError when the lookup found no station.
get_station(s, cfg, pos, now) ==
    IF ~s.update_position
    THEN [self |-> s, ret |-> None, raised |-> FALSE]
    ELSE IF /\ s._last_updated # NoTime
            /\ ~at_default_station(s, cfg)
            /\ now - s._last_updated < MIN_UPDATE
    THEN [self |-> s, ret |-> None, raised |-> FALSE]
    ELSE IF pos = NoPosition
    THEN [self |-> s, ret |-> suggest_default(s, cfg), raised |-> FALSE]
    ELSE LET found == nearest(cfg, pos) IN
         IF found = None
         THEN [self |-> s, ret |-> None, raised |-> TRUE]
         ELSE [self |-> IF s.station # None
                        THEN [s EXCEPT !._moved =
                                 moved_after(@, distance(StationPos(s.station), pos))]
                        ELSE s,
               ret |-> found,
               raised |-> FALSE]

\* ------------------------------------------------------- update_metar

\* update_metar(create=True):  self.metar = Metar(icao); self.taf = Taf(icao)
create_containers(s) ==
    [s EXCEPT !.metar = [icao |-> s.station, raw |-> None],
              !.taf = s.station]

\* Metar.update(): the raw text the container holds after the call.
fetched_raw(before, o) == IF o = "nodata" THEN before ELSE o

\* An update_metar that appends after every fetch, changed or not;
\* HistoryAppendsPreviousOnChange does not hold of it.
append_history_after_every_fetch(hist, icao, before, updated) ==
    IF before # None
    THEN Append(hist, [icao |-> icao, raw |-> before])
    ELSE hist

\* update_metar, history:
\*   if updated: if before is not None: self.previous_metars.append(before)
append_history(hist, icao, before, updated) ==
    IF updated /\ before # None
    THEN Append(hist, [icao |-> icao, raw |-> before])
    ELSE hist

\* update_metar(create).  c is what creating the containers does, o what the
\* provider call does.  Result: the instance after, the value returned,
\* whether it raised and how many provider calls (Metar.update) it made.
update_metar(s, create, c, o, now) ==
    IF create /\ c = "raise"
    THEN [self |-> s, ret |-> FALSE, raised |-> TRUE, nfetch |-> 0]
    ELSE LET s1 == IF create THEN create_containers(s) ELSE s IN
         IF ~needs_update(s1, now)
         THEN [self |-> s1, ret |-> FALSE, raised |-> FALSE, nfetch |-> 0]
         ELSE IF o = "raise" \/ s1.metar = NoMetar
         THEN [self |-> s1, ret |-> FALSE, raised |-> TRUE, nfetch |-> 1]
         ELSE LET before == s1.metar.raw
                  after == fetched_raw(before, o)
                  updated == after # before
              IN [self |-> [s1 EXCEPT
                               !.metar.raw = after,
                               !._last_updated = now,
                               !.previous_metars =
                                   append_history(@, s1.metar.icao, before, updated)],
                  ret |-> updated, raised |-> FALSE, nfetch |-> 1]

\* ------------------------------------------------ select_weather_icon

\* The rules of WI.DB that select_weather_icon collects in findIcon for each
\* body, in table order (the five predicates of its loop, evaluated on the
\* body with a wind speed of 8 kt).
Matching(body) ==
    CASE body = "CAVOK" -> <<"clear">>
      [] body = "FG_NCD" -> <<"clear", "fog">>
      [] OTHER -> <<>>

\* weathermetaricon.py select_weather_icon, up to the day/night variant:
\* one match gives its name, none gives wi_cloud, and for several matches
\* the filter  lambda x: x["day"] == day  reads a key no rule has.
select_weather_icon_metaricon(s) ==
    IF ~has_metar(s) THEN "wi_cloud"
    ELSE LET findIcon == Matching(s.metar.raw)
             l == Len(findIcon)
         IN IF l = 1 THEN findIcon[1]
            ELSE IF l > 1 THEN KeyError
            ELSE "wi_cloud"

\* WeatherIcon.select_weather_icon (weathericon.py): the first match, or
\* "cloud" when no rule matches.
select_weather_icon_factory(s) ==
    IF ~has_metar(s) THEN "cloud"
    ELSE LET findIcon == Matching(s.metar.raw)
         IN IF Len(findIcon) >= 1 THEN findIcon[1] ELSE "cloud"

\* self.select_weather_icon(): weathermetaricon.py has its own, the other
\* classes inherit WeatherData's, which returns None.
select_weather_icon(s, cfg) ==
    IF cfg.cls = "weathermetaricon" THEN select_weather_icon_metaricon(s) ELSE None

\* The icon selection at the end of update(): weathermetar.py asks its
\* weather_icon_factory, the other classes call self.select_weather_icon().
update_icon(s, cfg) ==
    IF cfg.cls = "weathermetar"
    THEN select_weather_icon_factory(s)
    ELSE select_weather_icon(s, cfg)

\* ------------------------------------------------------------- update

\* An except clause that only logs; FetchFailureIsContained does not hold
\* of it.
on_fetch_exception_log_only(s) == s

\* except: self.metar = None
on_fetch_exception(s) == [s EXCEPT !.metar = NoMetar]

\* The branch of update() taken: 0 nothing to do, 1 first station,
\* 2 station change, 3 first observation, 4 periodic refresh.
update_branch(s, new_station) ==
    IF new_station = None /\ s.station = None THEN 0
    ELSE IF s.station = None THEN 1
    ELSE IF new_station # None /\ new_station # s.station THEN 2
    ELSE IF s.metar = NoMetar THEN 3
    ELSE 4

\* The try block of the branch.  Result as update_metar, with ret the value
\* of `updated` after the block.
update_try(s, b, new_station, c, o, now) ==
    LET sA == IF b \in {1, 2} THEN [s EXCEPT !.station = new_station] ELSE s
        um == IF b = 4
              THEN IF s._last_updated = NoTime \/ now - s._last_updated > MIN_UPDATE
                   THEN update_metar(sA, FALSE, c, o, now)
                   ELSE [self |-> sA, ret |-> FALSE, raised |-> FALSE, nfetch |-> 0]
              ELSE update_metar(sA, TRUE, c, o, now)
    IN IF um.raised
       THEN [self |-> on_fetch_exception(um.self), ret |-> FALSE,
             raised |-> TRUE, nfetch |-> um.nfetch]
       ELSE [self |-> um.self, ret |-> IF b = 4 THEN um.ret ELSE TRUE,
             raised |-> FALSE, nfetch |-> um.nfetch]

\* The host variables update() pushes to, in the order it does.
SinkNames ==
    <<"weather:pressure", "weather:wind_speed", "weather:temperature",
      "weather:dew_point">>

\* The body of  if updated and self.station is not None:  the four host
\* variables are set from the observation if it has data, then the icon is
\* selected.  writes lists what has been assigned, in order.
publish(s, cfg) ==
    LET s1 == IF has_metar(s) THEN [s EXCEPT !.sinks = s.metar.raw] ELSE s
        pushed == IF has_metar(s) THEN SinkNames ELSE <<>>
        icon == update_icon(s1, cfg)
    IN IF icon = KeyError
       THEN [self |-> s1, raised |-> TRUE, writes |-> pushed]
       ELSE [self |-> [s1 EXCEPT !.weather_icon = icon], raised |-> FALSE,
             writes |-> Append(pushed, "weather_icon")]

\* A tail of update() that does not look at `updated`.
update_publish_whatever_updated(s, cfg, updated) == publish(s, cfg)

\* The tail of update().
update_publish(s, cfg, updated) ==
    IF updated /\ s.station # None
    THEN publish(s, cfg)
    ELSE [self |-> s, raised |-> FALSE, writes |-> <<>>]

\* update(force).  Result: the instance after; ret, the value returned;
\* raised, whether an exception left update(); branch; nfetch, the provider
\* calls made; fraise, whether the provider call or the creation of the
\* containers raised inside the try block; writes, the host variables and
\* the icon it has assigned, in order.
update(s, cfg, force, pos, c, o, now) ==
    LET s0 == IF force THEN [s EXCEPT !._last_updated = NoTime] ELSE s
        gs == get_station(s0, cfg, pos, now)
    IN IF gs.raised
       THEN [self |-> gs.self, ret |-> FALSE, raised |-> TRUE, branch |-> 0,
             nfetch |-> 0, fraise |-> FALSE, writes |-> <<>>]
       ELSE LET b == update_branch(gs.self, gs.ret) IN
            IF b = 0
            THEN [self |-> gs.self, ret |-> FALSE, raised |-> FALSE, branch |-> 0,
                  nfetch |-> 0, fraise |-> FALSE, writes |-> <<>>]
            ELSE LET ut == update_try(gs.self, b, gs.ret, c, o, now)
                     up == update_publish(ut.self, cfg, ut.ret)
                 IN [self |-> up.self, ret |-> ut.ret /\ ~up.raised,
                     raised |-> up.raised, branch |-> b,
                     nfetch |-> ut.nfetch, fraise |-> ut.raised,
                     writes |-> up.writes]

\* ------------------------------------------------- get_image_for_icon

\* "text" for the summary-text and forecast-page images, "plot" for the
\* station plot.
display(cfg) ==
    IF cfg.cls = "weatherstationplot" \/ (cfg.cls = "weathermetaricon" /\ cfg.show = "plot")
    THEN "plot" ELSE "text"

\* The image the text renderers draw and cache: the icon and, when the
\* observation has a summary, its lines.
text_image(s, cfg) ==
    [kind |-> cfg.show, icon |-> s.weather_icon,
     icao |-> IF has_metar(s) THEN s.metar.icao ELSE None,
     raw |-> IF has_metar(s) THEN s.metar.raw ELSE None]

\* The image the station-plot renderer draws from the observation.
plot_image(s) ==
    [kind |-> "plot", icon |-> None, icao |-> s.metar.icao, raw |-> s.metar.raw]

\* The part of get_image_for_icon after update() returned `updated`.
\* Result: the instance after, the image returned, and whether the renderer
\* ran to its end (the station plot's no-observation path returns an empty
\* image before drawing).
render(s, cfg, updated) ==
    IF ~updated /\ s._cache # NoImage
    THEN [self |-> [s EXCEPT !._busy_updating = FALSE], ret |-> s._cache,
          drawn |-> FALSE]
    ELSE IF display(cfg) = "plot"
    THEN IF ~has_metar(s)
         THEN [self |-> [s EXCEPT !._cache = EmptyImage, !._busy_updating = FALSE],
               ret |-> EmptyImage, drawn |-> FALSE]
         ELSE [self |-> [s EXCEPT !._busy_updating = FALSE],
               ret |-> plot_image(s), drawn |-> TRUE]
    ELSE [self |-> [s EXCEPT !._cache = text_image(s, cfg), !._busy_updating = FALSE],
          ret |-> text_image(s, cfg), drawn |-> TRUE]

\* A station-variable change that drops the cache but keeps the
\* observation; ObservationBelongsToStation does not hold of it.
invalidate_cache_only(s) == [s EXCEPT !._cache = NoImage]

\* simulator_variable_changed:  self.metar = None; self._cache = None
invalidate_previous(s) == [s EXCEPT !.metar = NoMetar, !._cache = NoImage]

\* -------------------------------------------------------------- state

VARIABLES
    self,       \* the representation instance
    cfg,        \* its configuration, fixed at construction
    now,        \* the clock, datetime.now()
    position,   \* the position the host reports
    call,       \* the get_image_for_icon call that got past the busy test:
                \* where it is
    result,     \* how the latest finished get_image_for_icon call ended
                \* and what it returned
    lastGood,   \* the image of the latest render that ran to its end, since
                \* the station variable last changed
    lastFetch,  \* when the latest update() ran, if it was an unforced
                \* one that called the provider; NoTime otherwise
    panels,     \* the representation instances constructed in the process
    threshold,  \* the class attributes MIN_UPDATE, in seconds
    codes,      \* wx_code_to_numeric: its argument
    wx_sym_list,\* wx_code_to_numeric: the list it has built so far
    mapping,    \* a CodePointMapping, under construction or constructed
    glyph,      \* the last alt_char call on it and what it returned
    station_plot_data, \* the values the station plot is drawn from
    plot,       \* the drawing of the station plot: where it is, what is drawn
    report,     \* select_weather_icon: the report, the hour and the icon font
    selection,  \* select_weather_icon: where it is and what it has chosen
    variant,    \* the last day_night call and what it returned
    weather_avwx,  \* a WeatherAVWX instance
    forecast_page, \* the last get_forecast_page call and what it returned
    utc,        \* the clock of the resources, nowutc(), in seconds
    ogimet,     \* a WeatherOGIMET instance
    checked     \* the last check_weather call and what it returned

\* The variables by the part of the program they belong to.
rep_vars == <<self, cfg, now, position, call, result, lastGood, lastFetch>>
panel_vars == <<panels, threshold>>
wx_vars == <<codes, wx_sym_list>>
glyph_vars == <<mapping, glyph>>
plot_vars == <<station_plot_data, plot>>
icon_vars == <<report, selection, variant>>

\* The variables of the resources, which no representation action touches.
avwx_vars == <<weather_avwx, forecast_page, utc, ogimet, checked>>
rest_vars == <<icon_vars, avwx_vars>>

\* The state of the process outside the one instance `self`.
others == <<panel_vars, wx_vars, glyph_vars, plot_vars, rest_vars>>

vars == <<rep_vars, panel_vars, wx_vars, glyph_vars, plot_vars, rest_vars>>

\* ------------------------------------------- the class attribute MIN_UPDATE
\* Panels of one process, and the refresh-location settings (minutes) they
\* may be configured with.
MaxPanels == 3
MaxRefreshLocation == 2
Panels == 1..MaxPanels
RefreshLocations == 1..MaxRefreshLocation

\* MIN_UPDATE = 60.0 in the three class bodies.
DefaultMinUpdate == 60
\* int(refresh_location) * 60
SecondsPerMinute == 60

\* The classes that own a MIN_UPDATE attribute.
Owners == {"weatherdata", "weathermetar", "weathermetaricon"}
ClassDefaults == [k \in Owners |-> DefaultMinUpdate]

NotConstructed == [made |-> FALSE, cls |-> None, refresh_location |-> 0]
NoPanels == [i \in Panels |-> NotConstructed]

\* The class whose attribute __init__ assigns: WeatherData.__init__ (run by
\* weathermetar.py and weatherstationplot.py instances) assigns
\* WeatherData.MIN_UPDATE, weathermetaricon.py assigns its own class's.
assigned_owner(cls) ==
    IF cls = "weathermetaricon" THEN "weathermetaricon" ELSE "weatherdata"

\* The class whose attribute get_station, needs_update and update read.
read_owner(cls) ==
    CASE cls = "weathermetar" -> "weathermetar"
      [] cls = "weathermetaricon" -> "weathermetaricon"
      [] OTHER -> "weatherdata"

\* The threshold panel i works with.
threshold_used(th, pn, i) == th[read_owner(pn[i].cls)]

\* Configurations: the class, the display mode, the configured station
\* (weather.get("station")), whether a station-identifier variable is
\* configured (string-dataref), and whether the station database knows the
\* default station.
Configs ==
    { c \in [cls : Classes, show : {"metar", "taf", "plot"},
             station : {None, "EHAM"}, dataref : BOOLEAN, db_default : BOOLEAN] :
        /\ c.cls = "weathermetar" => c.show = "metar"
        /\ c.cls = "weatherstationplot" => c.show = "plot"
        /\ c.dataref => c.station = None
        /\ (c.dataref \/ c.station # None) => c.db_default }

\* __init__
Constructed ==
    [_inited |-> FALSE, _moved |-> FALSE, _last_updated |-> NoTime,
     _cache |-> NoImage, _busy_updating |-> FALSE,
     station |-> None, metar |-> NoMetar, taf |-> None,
     previous_metars |-> <<>>, weather_icon |-> None,
     update_position |-> FALSE, sinks |-> None]

\* No call is past the busy test.
Idle == [pc |-> "idle", updated |-> FALSE, branch |-> 0, fraise |-> FALSE]

\* No call has finished yet.
NoResult == [how |-> None, ret |-> NoImage]

\* No instance constructed, the class attributes as the class bodies set
\* them.
PanelsIdle ==
    /\ panels = NoPanels
    /\ threshold = ClassDefaults

\* wx_code_to_numeric not called.
WxIdle ==
    /\ codes = <<>>
    /\ wx_sym_list = <<>>

\* The empty string, and the None that alt_char returns.
EmptyString == <<>>
NoChar == [kind |-> "None", chr |-> EmptyString]
NoGlyph == [code |-> 0, alt |-> 0, ret |-> NoChar, asked |-> FALSE]
NoMapping == [name |-> None, pc |-> "none"]

\* No CodePointMapping under construction, alt_char not called.
GlyphIdle ==
    /\ mapping = NoMapping
    /\ glyph = NoGlyph

\* None, for a value of station_plot_data.
Null == -1

\* The station plot before anything is drawn, and station_plot_data without
\* any value.
NotDrawn ==
    [pc |-> "draw_wind_barbs",
     wind |-> [pc |-> "start", totspeed |-> 0, ops |-> <<>>],
     sky |-> [covidx |-> 0, ops |-> <<>>],
     low |-> [covidx |-> 0, ops |-> <<>>, raised |-> FALSE]]

NoData ==
    [cls |-> "weatherstationplot", sky_cover |-> Null, low_clouds |-> Null,
     low_clouds_cover |-> Null, low_clouds_base_m |-> Null,
     speed |-> Null, direction |-> Null, gust |-> Null]

\* No station plot being drawn.
PlotIdle ==
    /\ station_plot_data = NoData
    /\ plot = NotDrawn

NoReport == [has_metar |-> FALSE, raw |-> EmptyString, wind |-> 0, day |-> TRUE, icons |-> {}]
NoSelection ==
    [pc |-> "idle", findIcon |-> <<>>, icon |-> EmptyString, raised |-> "no",
     ret |-> EmptyString]
NoVariant == [icon |-> EmptyString, day |-> TRUE, ret |-> EmptyString, asked |-> FALSE]

\* No icon being selected.
IconIdle ==
    /\ report = NoReport
    /\ selection = NoSelection
    /\ variant = NoVariant

\* self._weather is None
NoWeather == [kind |-> "None", station |-> None, raw |-> None]

NoAvwx ==
    [taf |-> FALSE, station |-> None, _weather |-> NoWeather, _forecast |-> <<>>,
     _weather_last_checked |-> NoTime, _weather_check_freq |-> 0]
NoPage == [page |-> 0, width |-> 0, ret |-> <<>>, raised |-> FALSE, asked |-> FALSE]
NoOgimet == [has_weather |-> FALSE, timed_update |-> FALSE, _updated |-> NoTime,
             update_time |-> 600]
NoCheck == [who |-> None, ret |-> FALSE]

\* No WeatherAVWX and no WeatherOGIMET at work.
AvwxIdle ==
    /\ weather_avwx = NoAvwx
    /\ forecast_page = NoPage
    /\ utc = 0
    /\ ogimet = NoOgimet
    /\ checked = NoCheck

\* The resources at rest.
RestIdle == IconIdle /\ AvwxIdle

\* The instance `self` as constructed, with nothing called on it.
RepIdle ==
    /\ cfg = [cls |-> "weatherstationplot", show |-> "plot", station |-> None,
              dataref |-> FALSE, db_default |-> TRUE]
    /\ self = Constructed
    /\ now = 0
    /\ position = NoPosition
    /\ call = Idle
    /\ result = NoResult
    /\ lastGood = NoImage
    /\ lastFetch = NoTime

Init ==
    /\ cfg \in Configs
    /\ self = Constructed
    /\ now = 0
    /\ position = NoPosition
    /\ call = Idle
    /\ result = NoResult
    /\ lastGood = NoImage
    /\ lastFetch = NoTime
    /\ PanelsIdle
    /\ WxIdle
    /\ GlyphIdle
    /\ PlotIdle
    /\ RestIdle

\* lastFetch after an update() that made nfetch provider calls.
FetchStamp(force, nfetch) == IF ~force /\ nfetch > 0 THEN now ELSE NoTime

\* ------------------------------------------------------------ actions

\* init(): with a station-identifier variable the station comes from the
\* callback; otherwise the configured station is installed, or the default
\* one with position tracking switched on.
init ==
    /\ ~self._inited
    /\ self' =
        IF cfg.dataref
        THEN [self EXCEPT !._inited = TRUE]
        ELSE LET s1 == [self EXCEPT
                           !.update_position = (cfg.station = None),
                           !.station = from_icao(cfg, configured_or_default(cfg)),
                           !._inited = TRUE]
             IN IF s1.station # None
                THEN [s1 EXCEPT !.weather_icon = select_weather_icon(s1, cfg)]
                ELSE s1
    /\ UNCHANGED <<cfg, now, position, call, result, lastGood, lastFetch>>
    /\ UNCHANGED others

\* get_image_for_icon, called by any thread while _busy_updating is set: a
\* bare return.
gifi_refused ==
    /\ self._inited
    /\ self._busy_updating
    /\ result' = [how |-> "refused", ret |-> NoImage]
    /\ UNCHANGED <<self, cfg, now, position, call, lastGood, lastFetch>>
    /\ UNCHANGED others

\* get_image_for_icon, entry:  self._busy_updating = True
gifi_enter ==
    /\ self._inited
    /\ call.pc = "idle"
    /\ ~self._busy_updating
    /\ self' = [self EXCEPT !._busy_updating = TRUE]
    /\ call' = [Idle EXCEPT !.pc = "update"]
    /\ UNCHANGED <<cfg, now, position, result, lastGood, lastFetch>>
    /\ UNCHANGED others

\* get_image_for_icon, the call of update(): an exception that leaves
\* update() leaves get_image_for_icon too.
gifi_update ==
    /\ call.pc = "update"
    /\ \E c \in CreateOutcomes, o \in FetchOutcomes :
         LET r == update(self, cfg, FALSE, position, c, o, now) IN
         /\ self' = r.self
         /\ lastFetch' = FetchStamp(FALSE, r.nfetch)
         /\ IF r.raised
            THEN /\ call' = Idle
                 /\ result' = [how |-> "raised", ret |-> NoImage]
            ELSE /\ call' = [pc |-> "render", updated |-> r.ret,
                             branch |-> r.branch, fraise |-> r.fraise]
                 /\ UNCHANGED result
    /\ UNCHANGED <<cfg, now, position, lastGood>>
    /\ UNCHANGED others

\* get_image_for_icon, after update(): reuse the cache or draw.
gifi_render ==
    /\ call.pc = "render"
    /\ LET r == render(self, cfg, call.updated) IN
         /\ self' = r.self
         /\ result' = [how |-> "returned", ret |-> r.ret]
         /\ lastGood' = IF r.drawn THEN r.ret ELSE lastGood
    /\ call' = Idle
    /\ UNCHANGED <<cfg, now, position, lastFetch>>
    /\ UNCHANGED others

\* simulator_variable_changed for the station-identifier variable with a
\* value that is not the tracked station.
simulator_variable_changed(icao) ==
    /\ self._inited
    /\ cfg.dataref
    /\ ~(self.station # None /\ icao = self.station)
    /\ \E c \in CreateOutcomes, o \in FetchOutcomes :
         LET s1 == invalidate_previous([self EXCEPT !.station = from_icao(cfg, icao)])
             r == update(s1, cfg, TRUE, position, c, o, now)
         IN /\ self' = r.self
            /\ lastFetch' = FetchStamp(TRUE, r.nfetch)
    /\ lastGood' = NoImage
    /\ UNCHANGED <<cfg, now, position, call, result>>
    /\ UNCHANGED others

\* The clock advances.
Tick ==
    /\ now < MaxTime
    /\ now' = now + 1
    /\ UNCHANGED <<self, cfg, position, call, result, lastGood, lastFetch>>
    /\ UNCHANGED others

\* The host reports another position, or none; only an instance that
\* tracks the position reads it.
Move(p) ==
    /\ self.update_position
    /\ p # position
    /\ position' = p
    /\ UNCHANGED <<self, cfg, now, call, result, lastGood, lastFetch>>
    /\ UNCHANGED others

Next ==
    \/ init
    \/ gifi_refused
    \/ gifi_enter
    \/ gifi_update
    \/ gifi_render
    \/ \E icao \in Stations \cup {UnknownIcao} : simulator_variable_changed(icao)
    \/ Tick
    \/ \E p \in Positions \cup {NoPosition} : Move(p)

Spec == Init /\ [][Next]_vars

\* ----------------------------------------------- constructing instances

\* __init__ of panel i of class cls with refresh-location rl:
\*   WeatherData.MIN_UPDATE = int(refresh_location) * 60
construct(i, cls, rl) ==
    /\ ~panels[i].made
    /\ panels' = [panels EXCEPT ![i] =
                      [made |-> TRUE, cls |-> cls, refresh_location |-> rl]]
    /\ threshold' = [threshold EXCEPT ![assigned_owner(cls)] = rl * SecondsPerMinute]
    /\ UNCHANGED <<rep_vars, wx_vars, glyph_vars, plot_vars, rest_vars>>

PanelsInit ==
    /\ RepIdle
    /\ PanelsIdle
    /\ WxIdle
    /\ GlyphIdle
    /\ PlotIdle
    /\ RestIdle

PanelsNext ==
    \E i \in Panels, cls \in Classes, rl \in RefreshLocations : construct(i, cls, rl)

PanelsSpec == PanelsInit /\ [][PanelsNext]_vars

\* ------------------------------------------------- wx_code_to_numeric

\* Strings are sequences of one-character strings, so that they can be
\* sliced as the code slices them.
MaxChunks == 4
MaxPairChunks == 1

\* CodePointMapping.wx_code_map, as the set of its <<key, value>> pairs.
wx_code_map ==
    { <<<<>>, 0>>,
      <<<<"M">>, 0>>,
      <<<<"T", "S", "N", "O">>, 0>>,
      <<<<"V", "A">>, 4>>,
      <<<<"F", "U">>, 4>>,
      <<<<"H", "Z">>, 5>>,
      <<<<"D", "U">>, 6>>,
      <<<<"B", "L", "D", "U">>, 1007>>,
      <<<<"S", "A">>, 1007>>,
      <<<<"B", "L", "S", "A">>, 1007>>,
      <<<<"V", "C", "B", "L", "S", "A">>, 1007>>,
      <<<<"V", "C", "B", "L", "D", "U">>, 1007>>,
      <<<<"B", "L", "P", "Y">>, 1007>>,
      <<<<"P", "O">>, 8>>,
      <<<<"V", "C", "P", "O">>, 8>>,
      <<<<"V", "C", "D", "S">>, 9>>,
      <<<<"V", "C", "S", "S">>, 9>>,
      <<<<"B", "R">>, 10>>,
      <<<<"B", "C", "B", "R">>, 10>>,
      <<<<"B", "C">>, 11>>,
      <<<<"M", "I", "F", "G">>, 12>>,
      <<<<"V", "C", "T", "S">>, 13>>,
      <<<<"V", "I", "R", "G", "A">>, 14>>,
      <<<<"V", "C", "S", "H">>, 16>>,
      <<<<"T", "S">>, 17>>,
      <<<<"T", "H", "D", "R">>, 17>>,
      <<<<"V", "C", "T", "S", "H", "Z">>, 17>>,
      <<<<"T", "S", "F", "Z", "F", "G">>, 17>>,
      <<<<"T", "S", "B", "R">>, 17>>,
      <<<<"T", "S", "D", "Z">>, 17>>,
      <<<<"V", "C", "T", "S", "U", "P">>, 17>>,
      <<<<"-", "T", "S", "U", "P">>, 17>>,
      <<<<"T", "S", "U", "P">>, 17>>,
      <<<<"+", "T", "S", "U", "P">>, 17>>,
      <<<<"S", "Q">>, 18>>,
      <<<<"F", "C">>, 19>>,
      <<<<"+", "F", "C">>, 19>>,
      <<<<"D", "S">>, 31>>,
      <<<<"S", "S">>, 31>>,
      <<<<"D", "R", "S", "A">>, 31>>,
      <<<<"D", "R", "D", "U">>, 31>>,
      <<<<"+", "D", "S">>, 34>>,
      <<<<"+", "S", "S">>, 34>>,
      <<<<"D", "R", "S", "N">>, 36>>,
      <<<<"+", "D", "R", "S", "N">>, 37>>,
      <<<<"-", "B", "L", "S", "N">>, 38>>,
      <<<<"B", "L", "S", "N">>, 38>>,
      <<<<"+", "B", "L", "S", "N">>, 39>>,
      <<<<"V", "C", "B", "L", "S", "N">>, 38>>,
      <<<<"V", "C", "F", "G">>, 40>>,
      <<<<"B", "C", "F", "G">>, 41>>,
      <<<<"P", "R", "F", "G">>, 44>>,
      <<<<"F", "G">>, 45>>,
      <<<<"F", "Z", "F", "G">>, 49>>,
      <<<<"-", "V", "C", "T", "S", "D", "Z">>, 51>>,
      <<<<"-", "D", "Z">>, 51>>,
      <<<<"-", "D", "Z", "B", "R">>, 51>>,
      <<<<"V", "C", "T", "S", "D", "Z">>, 53>>,
      <<<<"D", "Z">>, 53>>,
      <<<<"+", "V", "C", "T", "S", "D", "Z">>, 55>>,
      <<<<"+", "D", "Z">>, 55>>,
      <<<<"-", "F", "Z", "D", "Z">>, 56>>,
      <<<<"-", "F", "Z", "D", "Z", "S", "N">>, 56>>,
      <<<<"F", "Z", "D", "Z">>, 57>>,
      <<<<"+", "F", "Z", "D", "Z">>, 57>>,
      <<<<"F", "Z", "D", "Z", "S", "N">>, 57>>,
      <<<<"-", "D", "Z", "R", "A">>, 58>>,
      <<<<"D", "Z", "R", "A">>, 59>>,
      <<<<"+", "D", "Z", "R", "A">>, 59>>,
      <<<<"-", "R", "A">>, 61>>,
      <<<<"-", "R", "A", "B", "R">>, 61>>,
      <<<<"R", "A">>, 63>>,
      <<<<"R", "A", "B", "R">>, 63>>,
      <<<<"R", "A", "F", "G">>, 63>>,
      <<<<"V", "C", "R", "A">>, 63>>,
      <<<<"+", "R", "A">>, 65>>,
      <<<<"-", "F", "Z", "R", "A">>, 66>>,
      <<<<"-", "F", "Z", "R", "A", "S", "N">>, 66>>,
      <<<<"-", "F", "Z", "R", "A", "B", "R">>, 66>>,
      <<<<"-", "F", "Z", "R", "A", "P", "L">>, 66>>,
      <<<<"-", "F", "Z", "R", "A", "S", "N", "P", "L">>, 66>>,
      <<<<"T", "S", "F", "Z", "R", "A", "P", "L">>, 67>>,
      <<<<"-", "T", "S", "F", "Z", "R", "A">>, 67>>,
      <<<<"F", "Z", "R", "A">>, 67>>,
      <<<<"+", "F", "Z", "R", "A">>, 67>>,
      <<<<"F", "Z", "R", "A", "S", "N">>, 67>>,
      <<<<"T", "S", "F", "Z", "R", "A">>, 67>>,
      <<<<"-", "D", "Z", "S", "N">>, 68>>,
      <<<<"-", "R", "A", "S", "N">>, 68>>,
      <<<<"-", "S", "N", "R", "A">>, 68>>,
      <<<<"-", "S", "N", "D", "Z">>, 68>>,
      <<<<"R", "A", "S", "N">>, 69>>,
      <<<<"+", "R", "A", "S", "N">>, 69>>,
      <<<<"S", "N", "R", "A">>, 69>>,
      <<<<"D", "Z", "S", "N">>, 69>>,
      <<<<"S", "N", "D", "Z">>, 69>>,
      <<<<"+", "D", "Z", "S", "N">>, 69>>,
      <<<<"+", "S", "N", "D", "Z">>, 69>>,
      <<<<"-", "S", "N">>, 71>>,
      <<<<"-", "S", "N", "B", "R">>, 71>>,
      <<<<"S", "N">>, 73>>,
      <<<<"+", "S", "N">>, 75>>,
      <<<<"-", "S", "N", "S", "G">>, 77>>,
      <<<<"S", "G">>, 77>>,
      <<<<"-", "S", "G">>, 77>>,
      <<<<"I", "C">>, 78>>,
      <<<<"-", "F", "Z", "D", "Z", "P", "L">>, 79>>,
      <<<<"-", "F", "Z", "D", "Z", "P", "L", "S", "N">>, 79>>,
      <<<<"F", "Z", "D", "Z", "P", "L">>, 79>>,
      <<<<"-", "F", "Z", "R", "A", "P", "L", "S", "N">>, 79>>,
      <<<<"F", "Z", "R", "A", "P", "L">>, 79>>,
      <<<<"+", "F", "Z", "R", "A", "P", "L">>, 79>>,
      <<<<"-", "R", "A", "P", "L">>, 79>>,
      <<<<"-", "R", "A", "S", "N", "P", "L">>, 79>>,
      <<<<"-", "R", "A", "P", "L", "S", "N">>, 79>>,
      <<<<"+", "R", "A", "P", "L">>, 79>>,
      <<<<"R", "A", "P", "L">>, 79>>,
      <<<<"-", "S", "N", "P", "L">>, 79>>,
      <<<<"S", "N", "P", "L">>, 79>>,
      <<<<"-", "P", "L">>, 79>>,
      <<<<"P", "L">>, 79>>,
      <<<<"-", "P", "L", "S", "N">>, 79>>,
      <<<<"-", "P", "L", "R", "A">>, 79>>,
      <<<<"P", "L", "R", "A">>, 79>>,
      <<<<"-", "P", "L", "D", "Z">>, 79>>,
      <<<<"+", "P", "L">>, 79>>,
      <<<<"P", "L", "S", "N">>, 79>>,
      <<<<"P", "L", "U", "P">>, 79>>,
      <<<<"+", "P", "L", "S", "N">>, 79>>,
      <<<<"-", "S", "H">>, 80>>,
      <<<<"-", "S", "H", "R", "A">>, 80>>,
      <<<<"S", "H">>, 81>>,
      <<<<"S", "H", "R", "A">>, 81>>,
      <<<<"+", "S", "H">>, 81>>,
      <<<<"+", "S", "H", "R", "A">>, 81>>,
      <<<<"-", "S", "H", "R", "A", "S", "N">>, 83>>,
      <<<<"-", "S", "H", "S", "N", "R", "A">>, 83>>,
      <<<<"+", "S", "H", "R", "A", "B", "R">>, 84>>,
      <<<<"S", "H", "R", "A", "S", "N">>, 84>>,
      <<<<"+", "S", "H", "R", "A", "S", "N">>, 84>>,
      <<<<"S", "H", "S", "N", "R", "A">>, 84>>,
      <<<<"+", "S", "H", "S", "N", "R", "A">>, 84>>,
      <<<<"-", "S", "H", "S", "N">>, 85>>,
      <<<<"S", "H", "S", "N">>, 86>>,
      <<<<"+", "S", "H", "S", "N">>, 86>>,
      <<<<"-", "G", "S">>, 87>>,
      <<<<"-", "S", "H", "G", "S">>, 87>>,
      <<<<"F", "Z", "R", "A", "P", "L", "G", "S">>, 88>>,
      <<<<"-", "S", "N", "G", "S">>, 88>>,
      <<<<"G", "S", "P", "L", "S", "N">>, 88>>,
      <<<<"G", "S", "P", "L">>, 88>>,
      <<<<"P", "L", "G", "S", "S", "N">>, 88>>,
      <<<<"G", "S">>, 88>>,
      <<<<"S", "H", "G", "S">>, 88>>,
      <<<<"+", "G", "S">>, 88>>,
      <<<<"+", "S", "H", "G", "S">>, 88>>,
      <<<<"-", "G", "R">>, 89>>,
      <<<<"-", "S", "H", "G", "R">>, 89>>,
      <<<<"-", "S", "N", "G", "R">>, 90>>,
      <<<<"G", "R">>, 90>>,
      <<<<"S", "H", "G", "R">>, 90>>,
      <<<<"+", "G", "R">>, 90>>,
      <<<<"+", "S", "H", "G", "R">>, 90>>,
      <<<<"-", "T", "S", "R", "A", "S", "N">>, 95>>,
      <<<<"T", "S", "R", "A", "S", "N">>, 95>>,
      <<<<"-", "T", "S", "S", "N", "R", "A">>, 95>>,
      <<<<"T", "S", "S", "N", "R", "A">>, 95>>,
      <<<<"-", "V", "C", "T", "S", "R", "A">>, 1095>>,
      <<<<"-", "T", "S", "R", "A">>, 1095>>,
      <<<<"T", "S", "R", "A">>, 1095>>,
      <<<<"-", "T", "S", "D", "Z">>, 1095>>,
      <<<<"V", "C", "T", "S", "R", "A">>, 1095>>,
      <<<<"T", "S", "P", "L">>, 2095>>,
      <<<<"-", "T", "S", "S", "N">>, 2095>>,
      <<<<"-", "T", "S", "P", "L">>, 2095>>,
      <<<<"T", "S", "S", "N">>, 2095>>,
      <<<<"-", "V", "C", "T", "S", "S", "N">>, 2095>>,
      <<<<"V", "C", "T", "S", "S", "N">>, 2095>>,
      <<<<"T", "S", "P", "L", "S", "N">>, 2095>>,
      <<<<"T", "S", "S", "N", "P", "L">>, 2095>>,
      <<<<"-", "T", "S", "S", "N", "P", "L">>, 2095>>,
      <<<<"-", "T", "S", "R", "A", "G", "R">>, 96>>,
      <<<<"T", "S", "R", "A", "G", "S">>, 96>>,
      <<<<"T", "S", "R", "A", "G", "R">>, 96>>,
      <<<<"T", "S", "G", "S">>, 96>>,
      <<<<"T", "S", "G", "R">>, 96>>,
      <<<<"+", "T", "S", "F", "Z", "R", "A", "P", "L">>, 97>>,
      <<<<"+", "V", "C", "T", "S", "R", "A">>, 1097>>,
      <<<<"+", "T", "S", "R", "A">>, 1097>>,
      <<<<"+", "T", "S", "F", "Z", "R", "A">>, 1097>>,
      <<<<"+", "T", "S", "S", "N">>, 2097>>,
      <<<<"+", "T", "S", "P", "L">>, 2097>>,
      <<<<"+", "T", "S", "P", "L", "S", "N">>, 2097>>,
      <<<<"+", "V", "C", "T", "S", "S", "N">>, 2097>>,
      <<<<"T", "S", "S", "A">>, 98>>,
      <<<<"T", "S", "D", "S">>, 98>>,
      <<<<"T", "S", "D", "U">>, 98>>,
      <<<<"+", "T", "S", "G", "S">>, 99>>,
      <<<<"+", "T", "S", "G", "R">>, 99>>,
      <<<<"+", "T", "S", "R", "A", "G", "S">>, 99>>,
      <<<<"+", "T", "S", "R", "A", "G", "R">>, 99>>,
      <<<<"I", "N">>, 141>>,
      <<<<"-", "U", "P">>, 141>>,
      <<<<"U", "P">>, 141>>,
      <<<<"+", "U", "P">>, 142>>,
      <<<<"-", "F", "Z", "U", "P">>, 147>>,
      <<<<"F", "Z", "U", "P">>, 147>>,
      <<<<"+", "F", "Z", "U", "P">>, 148>> }

wx_keys == {e[1] : e \in wx_code_map}

\* wx_code_map[k], for a key k.
wx_lookup(k) == (CHOOSE e \in wx_code_map : e[1] = k)[2]

Min(a, b) == IF a < b THEN a ELSE b

\* s[a:b], for 0 <= a <= b.
slice(s, a, b) == SubSeq(s, a + 1, Min(b, Len(s)))

HasSpace(s) == \E i \in 1..Len(s) : s[i] = " "

RECURSIVE lstrip(_)
lstrip(s) == IF s # <<>> /\ s[1] = " " THEN lstrip(Tail(s)) ELSE s

RECURSIVE until_space(_)
until_space(s) ==
    IF s = <<>> \/ s[1] = " " THEN <<>> ELSE <<s[1]>> \o until_space(Tail(s))

\* s.split()[0] if " " in s else s.  The items are the weather groups of a
\* parsed observation, or keys of the table: none of them is blank.
first_word(s) == IF HasSpace(s) THEN until_space(lstrip(s)) ELSE s

\* The slices tried, shortest first.
options_shortest_first(wxcode) ==
    IF wxcode[1] \in {"-", "+"}
    THEN << <<1, 3>>, <<0, 3>>, <<1, 5>>, <<0, 5>>, <<0, 7>> >>
    ELSE << <<0, 2>>, <<0, 4>>, <<0, 6>> >>

\* The slices tried when the item is not a key, in the order of the list.
options(wxcode) ==
    IF wxcode[1] \in {"-", "+"}
    THEN << <<0, 7>>, <<0, 5>>, <<1, 5>>, <<0, 3>>, <<1, 3>> >>
    ELSE << <<0, 6>>, <<0, 4>>, <<0, 2>> >>

\* The for/else over the options: the value of the first slice that is a
\* key, 0 when the loop ends without a break.
RECURSIVE first_option(_, _)
first_option(wxcode, opts) ==
    IF opts = <<>> THEN 0
    ELSE LET k == slice(wxcode, opts[1][1], opts[1][2]) IN
         IF k \in wx_keys THEN wx_lookup(k) ELSE first_option(wxcode, Tail(opts))

\* The value appended for one item of the list.
wx_code(s) ==
    LET wxcode == first_word(s) IN
    IF wxcode \in wx_keys THEN wx_lookup(wxcode)
    ELSE first_option(wxcode, options(wxcode))

Signs == {<<>>, <<"+">>, <<"-">>}
Chunks == {<<"T", "S">>, <<"R", "A">>, <<"S", "N">>, <<"F", "Z">>,
           <<"G", "R">>, <<"U", "P">>, <<"X", "X">>}
Remarks == {<<>>, <<" ", "R", "A">>}

\* The words of at most n chunks.
RECURSIVE Words(_)
Words(n) ==
    IF n = 0 THEN {<<>>}
    ELSE Words(n - 1) \cup {w \o c : w \in Words(n - 1), c \in Chunks}

Tokens(n) == {sg \o w : sg \in Signs, w \in Words(n)}
\* Short items, some followed by a blank and a second word; no item starts
\* with a blank.
ShortTokens ==
    Tokens(MaxPairChunks)
        \cup {t \o r : t \in Tokens(MaxPairChunks) \ {<<>>}, r \in Remarks}

\* The lists wx_code_to_numeric is called with.
CodeLists ==
    {<<t>> : t \in Tokens(MaxChunks)}
        \cup {<<t, u>> : t \in ShortTokens, u \in ShortTokens}

WxInit ==
    /\ RepIdle
    /\ PanelsIdle
    /\ codes \in CodeLists
    /\ wx_sym_list = <<>>
    /\ GlyphIdle
    /\ PlotIdle
    /\ RestIdle

\* One iteration of `for s in codes`.
wx_code_to_numeric ==
    /\ Len(wx_sym_list) < Len(codes)
    /\ wx_sym_list' = Append(wx_sym_list, wx_code(codes[Len(wx_sym_list) + 1]))
    /\ UNCHANGED <<codes, rep_vars, panel_vars, glyph_vars, plot_vars, rest_vars>>

WxNext == wx_code_to_numeric

WxSpec == WxInit /\ [][WxNext]_vars

\* --------------------------------------------------- CodePointMapping

\* A character is modelled by the one-element sequence of its code point
\* and the empty string by the empty sequence.  A jump is the pair
\* <<place, length>>, and the None that _safe_pop returns for an exhausted or
\* missing list is the empty sequence, which is as false as None in a test.
NoJump == <<>>
MaxCodePoint == 1114111
chr(i) == <<i>>
ord(c) == c[1]

\* The module-level tables: the arguments of their constructors.
Tables ==
    [current_weather |->
        [num |-> 150, font_start |-> 59810,
         font_jumps |-> << <<7, 2>>, <<93, 2>>, <<94, 2>>, <<95, 2>>, <<97, 2>>, <<103, -190>> >>,
         char_jumps |-> << <<0, 4>>, <<100, 3>>, <<106, 4>>, <<113, 5>>, <<119, 1>>, <<136, 4>> >>],
     current_weather_auto |->
        [num |-> 100, font_start |-> 59727,
         font_jumps |-> << <<92, 2>>, <<95, 2>> >>,
         char_jumps |-> << <<0, 4>>, <<6, 4>>, <<13, 5>>, <<19, 1>>, <<36, 4>>, <<49, 1>>,
                           <<59, 1>>, <<69, 1>>, <<79, 1>>, <<88, 1>>, <<97, 2>> >>],
     low_clouds |->
        [num |-> 10, font_start |-> 59699,
         font_jumps |-> << <<7, 1>> >>, char_jumps |-> << <<0, 1>> >>],
     mid_clouds |->
        [num |-> 10, font_start |-> 59709,
         font_jumps |-> <<>>, char_jumps |-> << <<0, 1>> >>],
     high_clouds |->
        [num |-> 10, font_start |-> 59718,
         font_jumps |-> <<>>, char_jumps |-> << <<0, 1>> >>],
     sky_cover |->
        [num |-> 12, font_start |-> 59658, font_jumps |-> <<>>, char_jumps |-> <<>>],
     pressure_tendency |->
        [num |-> 9, font_start |-> 59648, font_jumps |-> <<>>, char_jumps |-> <<>>]]

TableNames == DOMAIN Tables

\* _safe_pop: the first element, None for an empty or missing list.
safe_pop(lst) == IF lst # <<>> THEN Head(lst) ELSE NoJump
after_pop(lst) == IF lst # <<>> THEN Tail(lst) ELSE lst

\* A code jump that leaves a single empty entry whatever its length.
char_jump_fill_one(jump_len) == <<EmptyString>>

\* [""] * jump_len
char_jump_fill(jump_len) == [i \in 1..jump_len |-> EmptyString]

\* The constructor up to its loop.
mapping_start(name) ==
    LET t == Tables[name] IN
    [name |-> name, num |-> t.num, pc |-> "loop",
     next_font_jump |-> safe_pop(t.font_jumps), font_jumps |-> after_pop(t.font_jumps),
     next_char_jump |-> safe_pop(t.char_jumps), char_jumps |-> after_pop(t.char_jumps),
     font_point |-> t.font_start, chrs |-> <<>>, code |-> 0]

\* One iteration of `while code < num`.
mapping_iteration(m) ==
    IF m.next_char_jump # NoJump /\ m.code >= m.next_char_jump[1]
    THEN LET jump_len == m.next_char_jump[2] IN
         [m EXCEPT !.code = m.code + jump_len,
                   !.chrs = m.chrs \o char_jump_fill(jump_len),
                   !.next_char_jump = safe_pop(m.char_jumps),
                   !.char_jumps = after_pop(m.char_jumps)]
    ELSE IF m.font_point \notin 0..MaxCodePoint
    THEN [m EXCEPT !.pc = "ValueError"]
    ELSE LET jumped == m.next_font_jump # NoJump /\ m.code >= m.next_font_jump[1] IN
         [m EXCEPT !.chrs = Append(m.chrs, chr(m.font_point)),
                   !.font_point = (IF jumped THEN m.font_point + m.next_font_jump[2]
                                             ELSE m.font_point) + 1,
                   !.next_font_jump = IF jumped THEN safe_pop(m.font_jumps)
                                                ELSE m.next_font_jump,
                   !.font_jumps = IF jumped THEN after_pop(m.font_jumps) ELSE m.font_jumps,
                   !.code = m.code + 1]

\* __call__ and alt_char, which call each other.  An index outside the
\* list is an IndexError.
RECURSIVE alt_char(_, _, _)
code_point(chrs, code) ==
    IF code < 1000
    THEN IF code < Len(chrs) THEN [kind |-> "str", chr |-> chrs[code + 1]]
                             ELSE [kind |-> "IndexError", chr |-> EmptyString]
    ELSE alt_char(chrs, code % 1000, code \div 1000)

alt_char(chrs, code, alt) ==
    LET c == code_point(chrs, code) IN
    IF c.kind # "str" THEN c
    ELSE IF Len(c.chr) > 0 THEN [kind |-> "str", chr |-> chr(ord(c.chr) + alt)]
    ELSE NoChar

Alts == {0, 1}
GlyphInit ==
    /\ RepIdle
    /\ PanelsIdle
    /\ WxIdle
    /\ mapping \in {mapping_start(name) : name \in TableNames}
    /\ glyph = NoGlyph
    /\ PlotIdle
    /\ RestIdle

\* CodePointMapping.__init__, one iteration of its loop at a time.
CodePointMapping_init ==
    /\ mapping.pc = "loop"
    /\ mapping' = IF mapping.code < mapping.num
                  THEN mapping_iteration(mapping)
                  ELSE [mapping EXCEPT !.pc = "done"]
    /\ UNCHANGED <<glyph, rep_vars, panel_vars, wx_vars, plot_vars, rest_vars>>

\* table.alt_char(code, alt) for a code of the table.
ask_alt_char(code, alt) ==
    /\ mapping.pc = "done"
    /\ glyph' = [code |-> code, alt |-> alt,
                 ret |-> alt_char(mapping.chrs, code, alt), asked |-> TRUE]
    /\ UNCHANGED <<mapping, rep_vars, panel_vars, wx_vars, plot_vars, rest_vars>>

GlyphNext ==
    \/ CodePointMapping_init
    \/ \E code \in 0..(mapping.num - 1), alt \in Alts : ask_alt_char(code, alt)

GlyphSpec == GlyphInit /\ [][GlyphNext]_vars

\* ------------------------------------------------------ the station plot

\* The values of station_plot_data are reals.  A cloud cover or a cloud type
\* k stands for k / Resolution, a wind speed for so many knots, a cloud base
\* for so many metres.  Null stands for None.
Resolution == 16
MaxSpeed == 120
Eighth == 8

\* The fraction rounded to the nearest integer, halves upwards.
int_nearest(n, d) == (2 * n + d) \div (2 * d)

\* int(n / d): the fraction truncated towards zero.
int(n, d) == IF n >= 0 THEN n \div d ELSE -((-n) \div d)

\* int(coverage / 0.125) + 1
cover_index(coverage) == int(coverage * Eighth, Resolution) + 1

\* What is drawn: the primitive, the angles of a pie slice (0 and 360 for
\* another primitive), and what it is filled or stroked with.
ellipse_outline == [op |-> "ellipse", start |-> 0, end |-> 360, ink |-> "outline plot_color"]
ellipse_filled == [op |-> "ellipse", start |-> 0, end |-> 360, ink |-> "fill plot_color"]
pieslice(a, b) == [op |-> "pieslice", start |-> a, end |-> b, ink |-> "fill plot_color"]
diameter(ink) == [op |-> "line", start |-> 0, end |-> 360, ink |-> ink]

\* The fill of bucket 6 when the slices stop at the half circle.
three_quarter_as_half == pieslice(-90, 90)

\* The fill of bucket 6.
three_quarter == pieslice(-90, 180)

\* draw_total_sky_cover: the index computed (0 when there is none) and the
\* primitives drawn, in order.
draw_sky(coverage) ==
    LET covidx == cover_index(coverage)
        ring == <<ellipse_outline>>
    IN  IF coverage = Null THEN [covidx |-> 0, ops |-> ring]
        ELSE [covidx |-> covidx,
              ops |->
                IF covidx = 0 THEN ring
                ELSE IF covidx = 2 THEN ring \o <<pieslice(-90, 0)>>
                ELSE IF covidx = 3 THEN ring \o <<pieslice(-90, 0), diameter("plot_color")>>
                ELSE IF covidx = 1 THEN ring \o <<diameter("plot_color")>>
                ELSE IF covidx = 4 THEN ring \o <<pieslice(-90, 90)>>
                ELSE IF covidx = 5 THEN ring \o <<pieslice(-90, 90), diameter("plot_color")>>
                ELSE IF covidx = 6 THEN ring \o <<three_quarter>>
                ELSE IF covidx = 7 THEN ring \o <<ellipse_filled, diameter("plot_inverse")>>
                ELSE ring \o <<ellipse_filled>>]

\* The characters of a module-level table: its constructor run to the end.
RECURSIVE mapping_run(_)
mapping_run(m) ==
    IF m.pc = "loop" /\ m.code < m.num THEN mapping_run(mapping_iteration(m)) ELSE m

table_chrs(name) == mapping_run(mapping_start(name)).chrs

\* The digit drawn for a cloud base.
height_code(height) ==
    IF 50 < height /\ height < 100 THEN 1
    ELSE IF 100 <= height /\ height < 200 THEN 2
    ELSE IF 200 <= height /\ height < 300 THEN 3
    ELSE IF 300 <= height /\ height < 600 THEN 4
    ELSE IF 600 <= height /\ height < 1000 THEN 5
    ELSE IF 1000 <= height /\ height < 1500 THEN 6
    ELSE IF 1500 <= height /\ height < 2000 THEN 7
    ELSE IF 2000 <= height /\ height < 2500 THEN 8
    ELSE IF 2500 <= height THEN 9
    ELSE 0

text(what, code) == [op |-> "text", what |-> what, code |-> code]

\* draw_low_clouds: the cover index computed (0 when it is not) and the
\* texts drawn, in order.
draw_low(data) ==
    LET none == [covidx |-> 0, ops |-> <<>>, raised |-> FALSE] IN
    IF data.low_clouds = Null THEN none
    ELSE
    LET cloudsidx == int(data.low_clouds, Resolution)
        typ == alt_char(table_chrs("low_clouds"), cloudsidx, 0)
    IN  IF typ.kind = "IndexError" THEN [none EXCEPT !.raised = TRUE]
        ELSE IF typ = NoChar THEN none
        ELSE
        LET one == <<text("type", ord(typ.chr))>> IN
        IF data.low_clouds_cover = Null THEN [none EXCEPT !.ops = one]
        ELSE
        LET covidx == cover_index(data.low_clouds_cover)
            cov == alt_char(table_chrs("sky_cover"), covidx, 0)
        IN  IF cov.kind = "IndexError"
            THEN [covidx |-> covidx, ops |-> one, raised |-> TRUE]
            ELSE IF cov = NoChar THEN [covidx |-> covidx, ops |-> one, raised |-> FALSE]
            ELSE
            LET two == Append(one, text("cover", ord(cov.chr))) IN
            IF data.low_clouds_base_m = Null
            THEN [covidx |-> covidx, ops |-> two, raised |-> FALSE]
            ELSE [covidx |-> covidx, raised |-> FALSE,
                  ops |-> Append(two, text("height", height_code(data.low_clouds_base_m)))]

\* draw_wind_barbs up to its loops.  The weathermetaricon.py copy has neither
\* the early return nor the default of 0 for a missing speed, and rounds the
\* speed for its log line.
wind_begin(cls, speed, direction) ==
    IF cls = "weatherstationplot" /\ speed = Null /\ direction = Null
    THEN [pc |-> "return", totspeed |-> 0, ops |-> <<>>]
    ELSE IF cls # "weatherstationplot" /\ speed = Null
    THEN [pc |-> "TypeError", totspeed |-> 0, ops |-> <<>>]
    ELSE LET totspeed == IF speed = Null THEN 0 ELSE speed IN
         IF totspeed < 5
         THEN [pc |-> "gust", totspeed |-> totspeed, ops |-> <<"calm circle">>]
         ELSE [pc |-> "pennants", totspeed |-> totspeed, ops |-> <<"stem">>]

\* One test of `while totspeed > unit`, with the iteration or the exit that
\* follows it.
barb_loop(w, unit, what, exit) ==
    IF w.totspeed > unit
    THEN [w EXCEPT !.ops = Append(w.ops, what), !.totspeed = w.totspeed - unit]
    ELSE [w EXCEPT !.pc = exit]

\* A gust label drawn whether or not there is a gust.
wind_end_labelled(w, gust) ==
    [w EXCEPT !.pc = "return", !.ops = Append(w.ops, "gust label")]

\* The gust label, after the loops or the calm circle.
wind_end(w, gust) ==
    [w EXCEPT !.pc = "return",
              !.ops = IF gust # Null THEN Append(w.ops, "gust label") ELSE w.ops]

Fractions == 0..Resolution
PlotClasses == {"weatherstationplot", "weathermetaricon"}

\* Every cover of the circle and of the low clouds, under a low cloud type
\* that has a symbol.
CoverData ==
    {[NoData EXCEPT !.sky_cover = s, !.low_clouds = 3 * Resolution + 1, !.low_clouds_cover = c] :
        s \in Fractions \cup {Null}, c \in Fractions \cup {Null}}

\* Every wind speed, with and without a direction and a gust.
WindData ==
    {[NoData EXCEPT !.cls = k, !.speed = s, !.direction = d, !.gust = g] :
        k \in PlotClasses, s \in 0..MaxSpeed \cup {Null}, d \in {Null, 90}, g \in {Null, 30}}

\* Each quantity present and missing, independently of the others.
MixedData ==
    {[cls |-> "weatherstationplot", sky_cover |-> s, low_clouds |-> t,
      low_clouds_cover |-> c, low_clouds_base_m |-> b,
      speed |-> w[1], direction |-> w[2], gust |-> w[3]] :
        s \in {Null, Resolution \div 2},
        t \in {Null, Resolution \div 2, 3 * Resolution + 1},
        c \in {Null, Resolution \div 2},
        b \in {Null, 250},
        w \in {Null, 3, 25} \X {Null, 90} \X {Null, 30}}

PlotInit ==
    /\ RepIdle
    /\ PanelsIdle
    /\ WxIdle
    /\ GlyphIdle
    /\ station_plot_data \in CoverData \cup WindData \cup MixedData
    /\ plot = NotDrawn
    /\ RestIdle

beside_plot == <<station_plot_data, rep_vars, panel_vars, wx_vars, glyph_vars, rest_vars>>

\* What the plot is after a step of draw_wind_barbs: an exception ends the
\* drawing, a return passes to draw_total_sky_cover.
after_wind(p, w) ==
    [p EXCEPT !.wind = w,
              !.pc = IF w.pc = "TypeError" THEN "TypeError"
                     ELSE IF w.pc = "return" THEN "draw_total_sky_cover"
                     ELSE p.pc]

\* draw_wind_barbs, from its entry to its loops.
draw_wind_barbs ==
    /\ plot.pc = "draw_wind_barbs"
    /\ plot.wind.pc = "start"
    /\ plot' = after_wind(plot, wind_begin(station_plot_data.cls, station_plot_data.speed,
                                            station_plot_data.direction))
    /\ UNCHANGED beside_plot

\* while totspeed > 50
draw_pennants ==
    /\ plot.pc = "draw_wind_barbs"
    /\ plot.wind.pc = "pennants"
    /\ plot' = after_wind(plot, barb_loop(plot.wind, 50, "pennant", "long bars"))
    /\ UNCHANGED beside_plot

\* while totspeed > 10
draw_long_bars ==
    /\ plot.pc = "draw_wind_barbs"
    /\ plot.wind.pc = "long bars"
    /\ plot' = after_wind(plot, barb_loop(plot.wind, 10, "long bar", "short bars"))
    /\ UNCHANGED beside_plot

\* while totspeed > 5
draw_short_bars ==
    /\ plot.pc = "draw_wind_barbs"
    /\ plot.wind.pc = "short bars"
    /\ plot' = after_wind(plot, barb_loop(plot.wind, 5, "short bar", "gust"))
    /\ UNCHANGED beside_plot

\* draw_wind_barbs, from the gust label to its end.
draw_gust ==
    /\ plot.pc = "draw_wind_barbs"
    /\ plot.wind.pc = "gust"
    /\ plot' = after_wind(plot, wind_end(plot.wind, station_plot_data.gust))
    /\ UNCHANGED beside_plot

draw_total_sky_cover ==
    /\ plot.pc = "draw_total_sky_cover"
    /\ plot' = [plot EXCEPT !.sky = draw_sky(station_plot_data.sky_cover),
                            !.pc = "draw_low_clouds"]
    /\ UNCHANGED beside_plot

draw_low_clouds ==
    /\ plot.pc = "draw_low_clouds"
    /\ LET r == draw_low(station_plot_data) IN
       plot' = [plot EXCEPT !.low = r,
                            !.pc = IF r.raised THEN "IndexError" ELSE "done"]
    /\ UNCHANGED beside_plot

PlotNext ==
    \/ draw_wind_barbs
    \/ draw_pennants
    \/ draw_long_bars
    \/ draw_short_bars
    \/ draw_gust
    \/ draw_total_sky_cover
    \/ draw_low_clouds

PlotSpec == PlotInit /\ [][PlotNext]_vars

\* ------------------------------------------------- select_weather_icon

\* Texts are sequences of one-character strings, as for wx_code_to_numeric.
KW_CAVOK == <<"c", "l", "e", "a", "r">>
CAVOK_DAY == <<"w", "i", "_", "d", "a", "y", "_", "s", "u", "n", "n", "y">>
CAVOK_NIGHT == <<"w", "i", "_", "n", "i", "g", "h", "t", "_", "c", "l", "e", "a", "r">>
WI_PREFIX == <<"w", "i", "_">>
DAY == <<"d", "a", "y", "_">>
NIGHT == <<"n", "i", "g", "h", "t", "_">>
NIGHT_ALT == <<"n", "i", "g", "h", "t", "_", "a", "l", "t", "_">>

\* The default name of the icon font, whose spelling is not used.
DEFAULT_WEATHER_ICON == <<"w", "i", "_", "d", "e", "f", "a", "u", "l", "t">>

\* WI.DB, in table order.
WI_DB ==
    <<
      [iconName |-> <<"c", "l", "e", "a", "r">>,
       descriptor |-> <<>>, precip |-> <<>>,
       visibility |-> <<<<"C", "A", "V", "O", "K">>, <<"N", "C", "D">>>>,
       cloud |-> <<<<>>>>, wind |-> <<0, 21>>],
      [iconName |-> <<"c", "l", "o", "u", "d">>,
       descriptor |-> <<>>, precip |-> <<>>,
       visibility |-> <<<<>>>>,
       cloud |-> <<<<"B", "K", "N">>>>, wind |-> <<0, 21>>],
      [iconName |-> <<"c", "l", "o", "u", "d", "y">>,
       descriptor |-> <<>>, precip |-> <<>>,
       visibility |-> <<<<>>>>,
       cloud |-> <<<<"O", "V", "C">>>>, wind |-> <<0, 21>>],
      [iconName |-> <<"c", "l", "o", "u", "d", "y", "-", "g", "u", "s", "t", "s">>,
       descriptor |-> <<>>, precip |-> <<>>,
       visibility |-> <<<<>>>>,
       cloud |-> <<<<"S", "C", "T">>, <<"B", "K", "N">>, <<"O", "V", "C">>>>, wind |-> <<22, 63>>],
      [iconName |-> <<"r", "a", "i", "n">>,
       descriptor |-> <<>>, precip |-> <<"R", "A">>,
       visibility |-> <<<<>>>>,
       cloud |-> <<<<>>>>, wind |-> <<0, 21>>],
      [iconName |-> <<"r", "a", "i", "n", "-", "w", "i", "n", "d">>,
       descriptor |-> <<>>, precip |-> <<"R", "A">>,
       visibility |-> <<<<>>>>,
       cloud |-> <<<<>>>>, wind |-> <<22, 63>>],
      [iconName |-> <<"s", "h", "o", "w", "e", "r", "s">>,
       descriptor |-> <<<<"S", "H">>>>, precip |-> <<>>,
       visibility |-> <<<<>>>>,
       cloud |-> <<<<>>>>, wind |-> <<0, 63>>],
      [iconName |-> <<"f", "o", "g">>,
       descriptor |-> <<>>, precip |-> <<>>,
       visibility |-> <<<<"B", "R">>, <<"F", "G">>>>,
       cloud |-> <<<<>>>>, wind |-> <<0, 63>>],
      [iconName |-> <<"s", "t", "o", "r", "m", "-", "s", "h", "o", "w", "e", "r", "s">>,
       descriptor |-> <<<<"T", "S">>, <<"S", "H">>>>, precip |-> <<>>,
       visibility |-> <<<<>>>>,
       cloud |-> <<<<>>>>, wind |-> <<0, 63>>],
      [iconName |-> <<"t", "h", "u", "n", "d", "e", "r", "s", "t", "o", "r", "m">>,
       descriptor |-> <<<<"T", "S">>>>, precip |-> <<>>,
       visibility |-> <<<<>>>>,
       cloud |-> <<<<>>>>, wind |-> <<0, 63>>],
      [iconName |-> <<"w", "i", "n", "d", "y">>,
       descriptor |-> <<>>, precip |-> <<>>,
       visibility |-> <<<<"C", "A", "V", "O", "K">>, <<"N", "C", "D">>>>,
       cloud |-> <<<<>>>>, wind |-> <<22, 33>>],
      [iconName |-> <<"s", "t", "r", "o", "n", "g", "-", "w", "i", "n", "d">>,
       descriptor |-> <<>>, precip |-> <<>>,
       visibility |-> <<<<"C", "A", "V", "O", "K">>, <<"N", "C", "D">>>>,
       cloud |-> <<<<>>>>, wind |-> <<34, 63>>],
      [iconName |-> <<"c", "l", "o", "u", "d", "y">>,
       descriptor |-> <<>>, precip |-> <<>>,
       visibility |-> <<<<>>>>,
       cloud |-> <<<<"F", "E", "W">>, <<"S", "C", "T">>>>, wind |-> <<0, 21>>],
      [iconName |-> <<"c", "l", "o", "u", "d", "y">>,
       descriptor |-> <<>>, precip |-> <<>>,
       visibility |-> <<<<>>>>,
       cloud |-> <<<<"F", "E", "W">>, <<"S", "C", "T">>>>, wind |-> <<0, 21>>],
      [iconName |-> <<"c", "l", "o", "u", "d", "y", "-", "g", "u", "s", "t", "s">>,
       descriptor |-> <<>>, precip |-> <<>>,
       visibility |-> <<<<>>>>,
       cloud |-> <<<<"S", "C", "T">>, <<"B", "K", "N">>, <<"O", "V", "C">>>>, wind |-> <<22, 63>>],
      [iconName |-> <<"c", "l", "o", "u", "d", "y", "-", "g", "u", "s", "t", "s">>,
       descriptor |-> <<>>, precip |-> <<>>,
       visibility |-> <<<<>>>>,
       cloud |-> <<<<"S", "C", "T">>, <<"B", "K", "N">>, <<"O", "V", "C">>>>, wind |-> <<22, 63>>],
      [iconName |-> <<"c", "l", "o", "u", "d", "y", "-", "w", "i", "n", "d", "y">>,
       descriptor |-> <<>>, precip |-> <<>>,
       visibility |-> <<<<>>>>,
       cloud |-> <<<<"F", "E", "W">>, <<"S", "C", "T">>>>, wind |-> <<22, 63>>],
      [iconName |-> <<"c", "l", "o", "u", "d", "y", "-", "w", "i", "n", "d", "y">>,
       descriptor |-> <<>>, precip |-> <<>>,
       visibility |-> <<<<>>>>,
       cloud |-> <<<<"F", "E", "W">>, <<"S", "C", "T">>>>, wind |-> <<22, 63>>],
      [iconName |-> <<"s", "n", "o", "w">>,
       descriptor |-> <<>>, precip |-> <<"S", "N">>,
       visibility |-> <<<<>>>>,
       cloud |-> <<<<>>>>, wind |-> <<0, 21>>],
      [iconName |-> <<"s", "n", "o", "w", "-", "w", "i", "n", "d">>,
       descriptor |-> <<>>, precip |-> <<"S", "N">>,
       visibility |-> <<<<>>>>,
       cloud |-> <<<<>>>>, wind |-> <<22, 63>>]
    >>

\* str.find: the lowest index at which sub occurs in s, -1 when it does not.
find(s, sub) ==
    LET at == {i \in 0..(Len(s) - Len(sub)) : SubSeq(s, i + 1, i + Len(sub)) = sub}
    IN  IF at = {} THEN -1 ELSE CHOOSE i \in at : \A j \in at : i <= j

\* reduce(lambda x, y: x + y, [rawtext.find(t) for t in texts], 0)
RECURSIVE sum_of_finds(_, _)
sum_of_finds(rawtext, texts) ==
    IF texts = <<>> THEN 0
    ELSE find(rawtext, Head(texts)) + sum_of_finds(rawtext, Tail(texts))

\* re.match("RA|SN|DZ|SG|PE|GR|GS", rawtext): a match at the very start.
PrecipCodes == {<<"R", "A">>, <<"S", "N">>, <<"D", "Z">>, <<"S", "G">>, <<"P", "E">>, <<"G", "R">>, <<"G", "S">>}
precip_matches(rawtext) == \E p \in PrecipCodes : SubSeq(rawtext, 1, 2) = p

\* The five tests of a rule, as the code evaluates them.
t1(item, rawtext) == sum_of_finds(rawtext, item.descriptor) = Len(item.descriptor)
t_precip(item, rawtext) == Len(item.precip) = 0 \/ find(rawtext, item.precip) # 0
t_clouds(item, rawtext) ==
    \/ Len(item.cloud) = 0
    \/ (Len(item.cloud) = 1 /\ item.cloud[1] = <<>>)
    \/ sum_of_finds(rawtext, item.cloud) > 0
t_wind(item, wind) == wind > item.wind[1] /\ wind < item.wind[2]
t_vis(item, rawtext) ==
    Len(item.visibility) = 0 \/ sum_of_finds(rawtext, item.visibility) > 0

ok(item, rawtext, wind) ==
    /\ t1(item, rawtext)
    /\ t_precip(item, rawtext)
    /\ t_clouds(item, rawtext)
    /\ t_wind(item, wind)
    /\ t_vis(item, rawtext)

\* findIcon, as the indices of its rules in the table.
RECURSIVE find_icons(_, _, _)
find_icons(n, rawtext, wind) ==
    IF n > Len(WI_DB) THEN <<>>
    ELSE (IF ok(WI_DB[n], rawtext, wind) THEN <<n>> ELSE <<>>)
            \o find_icons(n + 1, rawtext, wind)

\* str.replace
RECURSIVE replace(_, _, _)
replace(s, old, new) ==
    IF Len(s) < Len(old) THEN s
    ELSE IF SubSeq(s, 1, Len(old)) = old
         THEN new \o replace(SubSeq(s, Len(old) + 1, Len(s)), old, new)
         ELSE <<Head(s)>> \o replace(Tail(s), old, new)

\* The first name of a list that the icon table has, <<>> when it has none.
RECURSIVE first_existing(_, _)
first_existing(names, icons) ==
    IF names = <<>> THEN <<>>
    ELSE IF Head(names) \in icons THEN Head(names)
    ELSE first_existing(Tail(names), icons)

\* A fallback to the plain name whether the table has it or not.
found_name_plain(icon_np, icons) == WI_PREFIX \o icon_np

\* dft_name after the loop over the four prefixes: the first variant the
\* table has, <<>> when try_icon is still None.
found_name(icon_np, icons) ==
    first_existing(<<WI_PREFIX \o icon_np, WI_PREFIX \o DAY \o icon_np,
                     WI_PREFIX \o NIGHT \o icon_np, WI_PREFIX \o NIGHT_ALT \o icon_np>>,
                   icons)

day_night(icon, day, icons) ==
    IF icon = KW_CAVOK THEN (IF day THEN CAVOK_DAY ELSE CAVOK_NIGHT)
    ELSE
    LET icon_np == replace(icon, WI_PREFIX, <<>>)
        dft_name == found_name(icon_np, icons)
    IN  IF dft_name = <<>> THEN DEFAULT_WEATHER_ICON
        ELSE IF ~day /\ (WI_PREFIX \o NIGHT \o icon) \in icons
        THEN WI_PREFIX \o NIGHT \o icon
        ELSE IF ~day /\ (WI_PREFIX \o NIGHT_ALT \o icon) \in icons
        THEN WI_PREFIX \o NIGHT_ALT \o icon
        ELSE IF (WI_PREFIX \o DAY \o icon) \in icons
        THEN WI_PREFIX \o DAY \o icon
        ELSE dft_name

\* The names of the rules, and the variants an icon font may have of a name.
RuleNames == {WI_DB[n].iconName : n \in 1..Len(WI_DB)}
Variants == {<<>>, DAY, NIGHT, NIGHT_ALT}

\* An icon table: the fixed names, and the given variants of every rule
\* name, spelled with underscores as the fixed names are.
IconTable(kinds) ==
    {CAVOK_DAY, CAVOK_NIGHT, DEFAULT_WEATHER_ICON}
        \cup {WI_PREFIX \o k \o replace(name, <<"-">>, <<"_">>) : k \in kinds, name \in RuleNames}

\* The report bodies: wind, visibility, weather, clouds and the rest.
Digits == <<"0", "1", "2", "3", "4", "5", "6", "7", "8", "9">>
WindSpeeds == {0, 8, 21, 22, 30, 33, 34, 50, 63}
wind_group(w) == <<"0", "9", "0">> \o <<Digits[(w \div 10) + 1], Digits[(w % 10) + 1]>> \o <<"K", "T">>
Remainder == <<" ", "0", "0", "/", "M", "0", "1", " ", "Q", "1", "0", "3", "4", " ", "N", "O", "S", "I", "G">>
ReportHeader == <<"E", "B", "B", "R", " ", "0", "4", "1", "3", "5", "0", "Z", " ">>

Body(w, middle) == wind_group(w) \o <<" ">> \o middle \o Remainder

Middles ==
    {<<"C", "A", "V", "O", "K">>}
        \cup {vis \o wx \o cld :
                vis \in {<<"9", "9", "9", "9">>, <<"4", "0", "0", "0">>},
                wx \in {<<>>, <<" ", "R", "A">>, <<" ", "S", "N">>, <<" ", "S", "H", "R", "A">>, <<" ", "T", "S", "R", "A">>, <<" ", "B", "R">>, <<" ", "F", "G">>},
                cld \in {<<" ", "O", "V", "C", "0", "0", "7">>, <<" ", "B", "K", "N", "0", "2", "0">>, <<" ", "F", "E", "W", "0", "3", "0", " ", "S", "C", "T", "0", "4", "0">>, <<" ", "N", "C", "D">>}}

Reports ==
    {[has_metar |-> TRUE, raw |-> ReportHeader \o Body(w, m), wind |-> w,
      day |-> d, icons |-> IconTable(Variants)] :
        w \in WindSpeeds, m \in Middles, d \in BOOLEAN}

\* The report of a station under a low overcast, and no report at all, with
\* every icon font.
Overcast == ReportHeader \o Body(8, <<"9", "9", "9", "9", " ", "O", "V", "C", "0", "0", "7">>)
FontReports ==
    {[has_metar |-> h, raw |-> IF h THEN Overcast ELSE EmptyString,
      wind |-> IF h THEN 8 ELSE 0, day |-> d, icons |-> IconTable(kinds)] :
        h \in BOOLEAN, d \in BOOLEAN, kinds \in SUBSET Variants}

IconInit ==
    /\ RepIdle
    /\ PanelsIdle
    /\ WxIdle
    /\ GlyphIdle
    /\ PlotIdle
    /\ AvwxIdle
    /\ report \in Reports \cup FontReports
    /\ selection = [NoSelection EXCEPT !.pc = "start"]
    /\ variant = NoVariant

beside_icon == <<rep_vars, panel_vars, wx_vars, glyph_vars, plot_vars, avwx_vars>>

\* metar.raw[13:]
rawtext == slice(report.raw, 13, Len(report.raw))

\* if self.has_metar(): the loop over WI.DB.
find_icon ==
    /\ selection.pc = "start"
    /\ report.has_metar
    /\ selection' = [selection EXCEPT !.pc = "found",
                        !.findIcon = find_icons(1, rawtext, report.wind)]
    /\ UNCHANGED <<report, variant, beside_icon>>

\* else: no metar, the icon stays wi_cloud.
no_metar ==
    /\ selection.pc = "start"
    /\ ~report.has_metar
    /\ selection' = [selection EXCEPT !.pc = "named", !.icon = <<"w", "i", "_", "c", "l", "o", "u", "d">>]
    /\ UNCHANGED <<report, variant, beside_icon>>

\* The choice among the rules found: the name of the only one; for
\* several, len() of a match object, or the key "day" that no rule has,
\* raises; wi_cloud for none.
choose_icon ==
    /\ selection.pc = "found"
    /\ LET l == Len(selection.findIcon)
       IN  selection' =
              IF l = 1
              THEN [selection EXCEPT !.pc = "named",
                                     !.icon = WI_DB[selection.findIcon[1]].iconName]
              ELSE IF l > 1
              THEN [selection EXCEPT !.pc = "raised",
                       !.raised = IF precip_matches(rawtext) THEN "TypeError"
                                  ELSE "KeyError"]
              ELSE [selection EXCEPT !.pc = "named", !.icon = <<"w", "i", "_", "c", "l", "o", "u", "d">>]
    /\ UNCHANGED <<report, variant, beside_icon>>

\* day = self.is_metar_day(); the day or night variant, hyphens replaced.
choose_variant ==
    /\ selection.pc = "named"
    /\ selection' = [selection EXCEPT !.pc = "returned",
                        !.ret = replace(day_night(selection.icon, report.day,
                                                  report.icons), <<"-">>, <<"_">>)]
    /\ UNCHANGED <<report, variant, beside_icon>>

IconNext ==
    \/ find_icon
    \/ no_metar
    \/ choose_icon
    \/ choose_variant

IconSpec == IconInit /\ [][IconNext]_vars

\* day_night on its own: an icon font, and the names it is asked for.
VariantInit ==
    /\ RepIdle
    /\ PanelsIdle
    /\ WxIdle
    /\ GlyphIdle
    /\ PlotIdle
    /\ AvwxIdle
    /\ report \in {r \in FontReports : ~r.has_metar}
    /\ selection = NoSelection
    /\ variant = NoVariant

\* A call of day_night, with the name of a rule or with wi_cloud.
ask_day_night(icon, day) ==
    /\ variant' = [icon |-> icon, day |-> day,
                   ret |-> day_night(icon, day, report.icons), asked |-> TRUE]
    /\ UNCHANGED <<report, selection, beside_icon>>

VariantNext ==
    \E icon \in RuleNames \cup {<<"w", "i", "_", "c", "l", "o", "u", "d">>}, day \in BOOLEAN : ask_day_night(icon, day)

VariantSpec == VariantInit /\ [][VariantNext]_vars

\* --------------------------------------------- WeatherAVWX, WeatherOGIMET

\* What the provider can deliver for a station: nothing, or the raw text
\* of a report.
RawTexts == {"0512/0618", "0518/0624"}
Fetched == RawTexts \cup {"nothing"}

\* The report container's update(): the text is taken, and True returned,
\* when one was delivered that differs from the text held.
report_updated(w, o) == o # "nothing" /\ o # w.raw

\* pytaf's decode_taf(...).split("\n") for a raw forecast: a header line
\* and the lines of the first group, then the lines of each further group,
\* every group followed by an empty line, and the empty text after the
\* last line break.  A line is the sequence of its words.
decode_taf(raw) ==
    IF raw = "0512/0618"
    THEN << <<"TAF", "for", "EBBR", "valid", "0512/0618">>,
            <<"Wind", "240", "degrees", "at", "10", "knots">>,
            <<>>,
            <<"From", "0600", "rain", "showers">>,
            <<>>,
            <<>> >>
    ELSE << <<"TAF", "for", "EBBR", "valid", "0518/0624">>,
            <<"Wind", "090", "degrees", "at", "5", "knots">>,
            <<>>,
            <<"Becoming", "2000", "fog">>,
            <<>>,
            <<"Temporarily", "overcast", "at", "700", "feet">>,
            <<>>,
            <<>> >>

\* The loop over the lines: a non-empty line joins the block in progress,
\* an empty one closes it.  A block in progress at the end is left out.
RECURSIVE split_blocks(_, _)
split_blocks(lines, prevision) ==
    IF lines = <<>> THEN <<>>
    ELSE IF Head(lines) # <<>>
    THEN split_blocks(Tail(lines), Append(prevision, Head(lines)))
    ELSE <<prevision>> \o split_blocks(Tail(lines), <<>>)

\* while len(forecast[-1]) == 0: forecast = forecast[:-1]
RECURSIVE strip_empty_blocks(_)
strip_empty_blocks(forecast) ==
    IF forecast[Len(forecast)] # <<>> THEN forecast
    ELSE strip_empty_blocks(SubSeq(forecast, 1, Len(forecast) - 1))

\* textwrap.wrap of a line whose words are no longer than the width: words
\* fill an output line as long as they fit, a blank between two.
RECURSIVE words_len(_)
words_len(words) ==
    IF words = <<>> THEN 0 ELSE Len(Head(words)) + words_len(Tail(words))

line_len(words) == IF words = <<>> THEN 0 ELSE words_len(words) + Len(words) - 1

RECURSIVE wrap_from(_, _, _)
wrap_from(words, width, cur) ==
    IF words = <<>> THEN <<cur>>
    ELSE IF line_len(cur) + 1 + Len(Head(words)) <= width
    THEN wrap_from(Tail(words), width, Append(cur, Head(words)))
    ELSE <<cur>> \o wrap_from(Tail(words), width, <<Head(words)>>)

wrap(words, width) ==
    IF words = <<>> THEN <<>> ELSE wrap_from(Tail(words), width, <<Head(words)>>)

\* reduce(lambda x, t: x + wrap(t, width=width), text, [])
RECURSIVE wrap_all(_, _)
wrap_all(lines, width) ==
    IF lines = <<>> THEN <<>>
    ELSE wrap(Head(lines), width) \o wrap_all(Tail(lines), width)

\* f"Forecast page {1 + a} / {l}"
page_header(a, l) == <<"Forecast", "page", ToString(1 + a), "/", ToString(l)>>

\* a = int(page % l)
page_index(page, l) == page % l

\* The text of page `page` of a forecast, wrapped.
page_text(forecast, page, width) ==
    LET l == Len(forecast)
        a == page_index(page, l)
    IN  wrap_all(<<page_header(a, l)>> \o forecast[a + 1], width)

\* update_weather at time t, o being what the provider delivers.  Result:
\* the instance after, and the value returned.
update_weather(s, o, t) ==
    IF s._weather # NoWeather /\ s._weather.station = s.station
    THEN IF report_updated(s._weather, o)
         THEN [self |-> [s EXCEPT !._weather.raw = o, !._weather_last_checked = t],
               ret |-> TRUE]
         ELSE [self |-> s, ret |-> FALSE]
    ELSE LET s1 == [s EXCEPT
                       !._weather = [kind |-> IF s.taf THEN "Taf" ELSE "Metar",
                                     station |-> s.station, raw |-> None],
                       !._forecast = IF s.taf THEN <<>> ELSE @]
             updated == report_updated(s1._weather, o)
         IN  [self |-> IF updated
                       THEN [s1 EXCEPT !._weather.raw = o, !._weather_last_checked = t]
                       ELSE s1,
              ret |-> updated]

\* weather_changed(): update_weather(), then the base class's
\* weather_changed if it returned True.
weather_changed(s, o, t) == update_weather(s, o, t).self

\* station_changed(): update_weather(), and weather_changed() if it
\* returned True.
station_changed(s, o1, o2, t) ==
    LET r == update_weather(s, o1, t)
    IN  IF r.ret THEN weather_changed(r.self, o2, t) ELSE r.self

\* get_forecast_page(page, width).  Result: the instance after, the lines
\* returned, and whether it raised (no raw text to decode, or no block).
get_forecast_page(s, page, width) ==
    IF ~s.taf THEN [self |-> s, ret |-> <<>>, raised |-> FALSE]
    ELSE IF Len(s._forecast) = 0
    THEN IF s._weather.raw = None
         THEN [self |-> s, ret |-> <<>>, raised |-> TRUE]
         ELSE LET forecast == split_blocks(decode_taf(s._weather.raw), <<>>)
              IN  IF \A i \in 1..Len(forecast) : forecast[i] = <<>>
                  THEN [self |-> s, ret |-> <<>>, raised |-> TRUE]
                  ELSE LET s1 == [s EXCEPT !._forecast = strip_empty_blocks(forecast)]
                       IN  [self |-> s1, ret |-> page_text(s1._forecast, page, width),
                            raised |-> FALSE]
    ELSE [self |-> s, ret |-> page_text(s._forecast, page, width), raised |-> FALSE]

\* The seconds of a day, and timedelta.seconds: the seconds of the elapsed
\* time that remain after its whole days.
SecondsPerDay == 86400
seconds(elapsed) == elapsed % SecondsPerDay

\* WeatherAVWX.check_weather at time t
check_weather(s, t) ==
    IF s._weather = NoWeather \/ s._weather_last_checked = NoTime THEN TRUE
    ELSE seconds(t - s._weather_last_checked) > s._weather_check_freq

\* WeatherOGIMET.check_weather at time t
ogimet_check_weather(g, t) ==
    IF ~g.has_weather THEN TRUE
    ELSE IF g.timed_update THEN seconds(t - g._updated) > g.update_time
    ELSE FALSE

\* WeatherOGIMET.update_weather(moment_normalized) at time t: without a
\* moment, an instance updated before fetches only when the seconds of the
\* time elapsed exceed update_time; a fetch that delivers a report sets
\* _weather and _updated.
ogimet_update_weather(g, with_moment, delivered, t) ==
    IF ~with_moment /\ g._updated # NoTime
            /\ ~(seconds(t - g._updated) > g.update_time)
    THEN g
    ELSE IF delivered THEN [g EXCEPT !.has_weather = TRUE, !._updated = t]
    ELSE g

\* The arguments of get_forecast_page: pages before, in and beyond the
\* pages of a forecast, and the widths of a panel.
MaxPage == 4
Pages == (0 - MaxPage)..MaxPage
Widths == {12, 21}

\* The instants of the clock, in seconds, and the check intervals.
Instants == {0, 601, 86400, 86401, 87001}
UpdateTime == 600
CheckFreqs == {30, UpdateTime}

\* WeatherAVWX.__init__ before self.init()
AvwxConstructed ==
    {[taf |-> taf, station |-> None, _weather |-> NoWeather, _forecast |-> <<>>,
      _weather_last_checked |-> NoTime, _weather_check_freq |-> freq] :
        taf \in BOOLEAN, freq \in CheckFreqs}

beside_avwx == <<rep_vars, panel_vars, wx_vars, glyph_vars, plot_vars, icon_vars>>

\* The forecast pages: a WeatherAVWX, its station set and changed, its
\* weather updated, its pages asked for.
ForecastInit ==
    /\ RepIdle
    /\ PanelsIdle
    /\ WxIdle
    /\ GlyphIdle
    /\ PlotIdle
    /\ IconIdle
    /\ weather_avwx \in AvwxConstructed
    /\ forecast_page = NoPage
    /\ utc = 0
    /\ ogimet = NoOgimet
    /\ checked = NoCheck

\* set_station(icao): a station the database knows and that is not the
\* current one is installed, then station_changed(); for any other
\* identifier set_station returns and nothing changes.
set_station(icao) ==
    /\ icao \in Stations
    /\ icao # weather_avwx.station
    /\ \E o1 \in Fetched, o2 \in Fetched :
          weather_avwx' =
              station_changed([weather_avwx EXCEPT !.station = icao], o1, o2, utc)
    /\ UNCHANGED <<forecast_page, utc, ogimet, checked, beside_avwx>>

\* weather_changed(), for an instance with a station.
avwx_weather_changed ==
    /\ weather_avwx.station # None
    /\ \E o \in Fetched : weather_avwx' = weather_changed(weather_avwx, o, utc)
    /\ UNCHANGED <<forecast_page, utc, ogimet, checked, beside_avwx>>

\* A call of get_forecast_page.
ask_forecast_page(page, width) ==
    /\ LET r == get_forecast_page(weather_avwx, page, width)
       IN  /\ weather_avwx' = r.self
           /\ forecast_page' = [page |-> page, width |-> width, ret |-> r.ret,
                                raised |-> r.raised, asked |-> TRUE]
    /\ UNCHANGED <<utc, ogimet, checked, beside_avwx>>

ForecastNext ==
    \/ \E icao \in Stations : set_station(icao)
    \/ avwx_weather_changed
    \/ \E page \in Pages, width \in Widths : ask_forecast_page(page, width)

ForecastSpec == ForecastInit /\ [][ForecastNext]_vars

\* The checks: the clock, a WeatherAVWX and a WeatherOGIMET, their weather
\* updated and checked.
CheckInit ==
    /\ RepIdle
    /\ PanelsIdle
    /\ WxIdle
    /\ GlyphIdle
    /\ PlotIdle
    /\ IconIdle
    /\ weather_avwx \in {s \in AvwxConstructed : ~s.taf}
    /\ forecast_page = NoPage
    /\ utc = 0
    /\ ogimet \in {[NoOgimet EXCEPT !.timed_update = tu] : tu \in BOOLEAN}
    /\ checked = NoCheck

\* Time passes.
advance(t) ==
    /\ t > utc
    /\ utc' = t
    /\ UNCHANGED <<weather_avwx, forecast_page, ogimet, checked, beside_avwx>>

\* A call of WeatherAVWX.check_weather.
ask_check_weather ==
    /\ checked' = [who |-> "WeatherAVWX", ret |-> check_weather(weather_avwx, utc)]
    /\ UNCHANGED <<weather_avwx, forecast_page, utc, ogimet, beside_avwx>>

\* WeatherOGIMET.init(moment): the first update_weather, with a moment.
ogimet_init ==
    /\ ~ogimet.has_weather
    /\ \E delivered \in BOOLEAN :
          ogimet' = ogimet_update_weather(ogimet, TRUE, delivered, utc)
    /\ UNCHANGED <<weather_avwx, forecast_page, utc, checked, beside_avwx>>

\* A later update_weather(), without a moment.
ogimet_update ==
    /\ \E delivered \in BOOLEAN :
          ogimet' = ogimet_update_weather(ogimet, FALSE, delivered, utc)
    /\ UNCHANGED <<weather_avwx, forecast_page, utc, checked, beside_avwx>>

\* A call of WeatherOGIMET.check_weather.
ask_ogimet_check_weather ==
    /\ checked' = [who |-> "WeatherOGIMET", ret |-> ogimet_check_weather(ogimet, utc)]
    /\ UNCHANGED <<weather_avwx, forecast_page, utc, ogimet, beside_avwx>>

CheckNext ==
    \/ \E t \in Instants : advance(t)
    \/ \E icao \in Stations : set_station(icao)
    \/ avwx_weather_changed
    \/ ask_check_weather
    \/ ogimet_init
    \/ ogimet_update
    \/ ask_ogimet_check_weather

CheckSpec == CheckInit /\ [][CheckNext]_vars

\* ------------------------------------------------------------- claims

\* The step in which the update() of the call in progress runs.
UpdateStep == call.pc = "update" /\ call'.pc # "update"

\* The step in which the call in progress reuses the cache or draws.
RenderStep == call.pc = "render" /\ call'.pc = "idle"

\* C1: a call of get_image_for_icon made while _busy_updating is set
\* performs no fetch, changes no state of the instance, and returns the
\* cached image _cache.
BusyCallReturnsCache ==
    [][gifi_refused =>
          /\ self' = self
          /\ lastFetch' = lastFetch
          /\ result'.ret = self._cache]_vars

\* C2: every call that set _busy_updating has cleared it when it is left,
\* on every exit path, failures included: whenever no call is in progress
\* the flag is false.
BusyClearedOnEveryExit == call.pc = "idle" => ~self._busy_updating

\* C3: of two successive update(force=False) calls, the second made less
\* than MIN_UPDATE after the first, at most one calls the provider,
\* whatever the state and whatever positions the host reports in between.
AtMostOneFetchPerWindow ==
    [][(UpdateStep /\ lastFetch # NoTime /\ now - lastFetch < MIN_UPDATE)
          => lastFetch' = NoTime]_vars

\* C4: while the station stays the same, a step appends to previous_metars
\* exactly when it leaves a raw text different from the one held before and
\* a raw text was held before; what it appends is that previous raw text,
\* once; otherwise previous_metars is unchanged.
HistoryAppendsPreviousOnChange ==
    [][self'.station = self.station =>
          self'.previous_metars =
              IF has_metar(self) /\ has_metar(self')
                    /\ self'.metar.raw # self.metar.raw
              THEN Append(self.previous_metars,
                          [icao |-> self.station, raw |-> self.metar.raw])
              ELSE self.previous_metars]_vars

\* C4, the case: a refresh of the same station brought a different report
\* and the previous one is in the history.
HistoryHasPrevious ==
    /\ Len(self.previous_metars) >= 1
    /\ has_metar(self)
    /\ self.previous_metars[Len(self.previous_metars)].icao = self.station
    /\ self.previous_metars[Len(self.previous_metars)].raw # self.metar.raw

\* C5: when update() replaces the tracked station by another one while a
\* raw text is held for the old station, that raw text is appended to
\* previous_metars.
StationChangeKeepsOldRaw ==
    [][(UpdateStep /\ self.station # None /\ self'.station # self.station
            /\ has_metar(self))
          => self'.previous_metars =
                Append(self.previous_metars,
                       [icao |-> self.station, raw |-> self.metar.raw])]_vars

\* C6: when the provider call or the creation of the containers raises
\* inside update(), update() ends normally and returns False, metar is
\* None, and _cache is what it was; in each of the four branches.
FetchFailureIsContained ==
    [][(UpdateStep /\ call'.fraise) =>
          /\ call'.pc = "render"
          /\ call'.branch \in 1..4
          /\ ~call'.updated
          /\ self'.metar = NoMetar
          /\ self'._cache = self._cache]_vars

\* C6, the case: the provider call raised in the periodic refresh while an
\* image was cached.
FetchFailedInRefresh ==
    /\ call.pc = "render"
    /\ call.fraise
    /\ call.branch = 4
    /\ self._cache # NoImage

\* C7: once a render has run to its end, every later call whose update()
\* returned False returns the image of the latest such render, in every
\* display mode.
FailedRefreshReturnsLastRender ==
    [][(RenderStep /\ ~call.updated /\ lastGood # NoImage)
          => result'.ret = lastGood]_vars

\* C8: get_image_for_icon and the update() it calls never raise, whatever
\* the report, the position and the outcome of the provider call.
RedrawNeverRaises == result.how # "raised"

\* C9: between operations, an observation container exists only with a
\* tracked station, and it and the forecast container were created for
\* that station.
ObservationBelongsToStation ==
    self.metar # NoMetar =>
        /\ self.station # None
        /\ self.metar.icao = self.station
        /\ self.taf = self.station

\* C9, the case: the tracked station was replaced and a report is held for
\* the new one.
ObservationAfterStationChange ==
    /\ self.update_position
    /\ self.station # None
    /\ cfg.db_default
    /\ self.station # configured_or_default(cfg)
    /\ has_metar(self)

\* C10: _moved is false at construction and, once true, stays true through
\* every later operation.
MovedIsSticky ==
    /\ [](~self._inited => ~self._moved)
    /\ [][self._moved => self'._moved]_vars

\* C10, the case: _moved is set, and afterwards the position was lost and
\* a provider call failed.
MovedThenPositionLost ==
    /\ self._moved
    /\ position = NoPosition
    /\ self.metar = NoMetar
    /\ result.how = "returned"


\* C11: with position tracking on and no position from the host,
\* get_station returns the configured default station exactly when no
\* station is tracked and None when one is; it raises nothing and leaves the
\* station, the observation and _moved as they were.
NoPositionSuggestsDefault ==
    (self._inited /\ self.update_position /\ position = NoPosition) =>
        LET r == get_station(self, cfg, position, now) IN
        /\ ~r.raised
        /\ r.self = self
        /\ r.ret = IF self.station = None
                   THEN from_icao(cfg, configured_or_default(cfg))
                   ELSE None

\* C11, the case: an update() ran without a position while a station was
\* tracked, and kept the station.
UpdatedWithoutPosition ==
    /\ self.update_position
    /\ position = NoPosition
    /\ self.station # None
    /\ call.pc = "render"
    /\ call.branch \in {3, 4}

\* C12: for a tracked station that the call does not replace and whose
\* observation container exists, update(force) calls the provider exactly
\* when force is true or more than MIN_UPDATE has passed since
\* _last_updated; otherwise it calls nothing and returns False.
FetchIffForcedOrStale ==
    (self._inited /\ self.station # None /\ self.metar # NoMetar) =>
        \A force \in BOOLEAN, c \in CreateOutcomes, o \in FetchOutcomes :
            LET r == update(self, cfg, force, position, c, o, now)
                stale == /\ self._last_updated # NoTime
                         /\ now - self._last_updated > MIN_UPDATE
            IN r.self.station = self.station =>
                  /\ r.nfetch > 0 <=> (force \/ stale)
                  /\ r.nfetch = 0 => (~r.ret /\ ~r.raised)

\* C13: the threshold an instance works with is the one derived from its
\* own refresh-location setting, and constructing another instance never
\* changes the threshold of an existing one.
ThresholdIsInstanceScoped ==
    /\ [](\A i \in Panels : panels[i].made =>
            threshold_used(threshold, panels, i)
                = panels[i].refresh_location * SecondsPerMinute)
    /\ [][\A i \in Panels : panels[i].made =>
            threshold_used(threshold', panels', i)
                = threshold_used(threshold, panels, i)]_vars

\* The slices of the claim, in its order: [:7], [:5], [1:5], [:3], [1:3]
\* for an item starting with + or -, and [:6], [:4], [:2] for another.
ClaimedSlices(s) ==
    IF s # <<>> /\ s[1] \in {"+", "-"}
    THEN << slice(s, 0, 7), slice(s, 0, 5), slice(s, 1, 5), slice(s, 0, 3), slice(s, 1, 3) >>
    ELSE << slice(s, 0, 6), slice(s, 0, 4), slice(s, 0, 2) >>

\* C14: wx_code_to_numeric gives one code per item, in order; an item that
\* is a key gives the key's value; another item gives the value of the
\* first of its slices that is a key, and 0 when none is.
OneCodePerTokenFirstSliceWins ==
    /\ Len(wx_sym_list) <= Len(codes)
    /\ \A i \in 1..Len(wx_sym_list) :
          LET s == codes[i]
              sl == ClaimedSlices(s)
              hits == {j \in 1..Len(sl) : sl[j] \in wx_keys}
          IN wx_sym_list[i] =
                IF s \in wx_keys THEN wx_lookup(s)
                ELSE IF hits = {} THEN 0
                ELSE wx_lookup(sl[CHOOSE j \in hits : \A k \in hits : j <= k])

\* "+TSRAXX" is not a key; its [:5] slice "+TSRA" is, as is its shorter
\* [1:3] slice "TS".
SliceOfUnknownToken ==
    /\ codes = << <<"+", "T", "S", "R", "A", "X", "X">> >>
    /\ wx_sym_list = <<1097>>

\* The codes of the code-jump ranges [place, place + length) of a table.
InCharJump(name, c) ==
    \E i \in 1..Len(Tables[name].char_jumps) :
        LET j == Tables[name].char_jumps[i] IN j[1] <= c /\ c < j[1] + j[2]

\* C15: in each table, for every code c of 0..num-1, alt_char(c, 0) is None
\* exactly when c lies in a code-jump range, and the table has exactly num
\* entries.
NoneExactlyInCharJumps ==
    /\ mapping.pc # "ValueError"
    /\ mapping.pc = "done" =>
          /\ Len(mapping.chrs) = mapping.num
          /\ \A c \in 0..(mapping.num - 1) :
                (alt_char(mapping.chrs, c, 0) = NoChar) <=> InCharJump(mapping.name, c)
    /\ (glyph.asked /\ glyph.alt = 0) =>
          ((glyph.ret = NoChar) <=> InCharJump(mapping.name, glyph.code))

\* Code 102 of current_weather, inside the jump of 3 at 100, has no symbol.
GlyphAskedInsideJump ==
    /\ mapping.name = "current_weather"
    /\ glyph.asked /\ glyph.code = 102 /\ glyph.alt = 0
    /\ glyph.ret = NoChar

\* The station plot has passed draw_total_sky_cover, draw_wind_barbs.
SkyDrawn == plot.pc \in {"draw_low_clouds", "done"}
WindDrawn == plot.pc \in {"draw_total_sky_cover", "draw_low_clouds", "done"}

\* C16: for every cover fraction f of [0, 1] the index int(f / 0.125) + 1
\* is floor(f / 0.125) + 1, lies in 1..9, and is not less than the index of
\* any smaller fraction; in draw_total_sky_cover and in draw_low_clouds.
BucketIsFloorInRangeMonotone ==
    /\ (SkyDrawn /\ station_plot_data.sky_cover # Null) =>
          LET f == station_plot_data.sky_cover IN
          /\ plot.sky.covidx = ((f * Eighth) \div Resolution) + 1
          /\ plot.sky.covidx \in 1..9
          /\ \A g \in 0..f : draw_sky(g).covidx <= plot.sky.covidx
    /\ (plot.pc = "done" /\ station_plot_data.low_clouds_cover # Null
            /\ Len(plot.low.ops) > 0) =>
          LET f == station_plot_data.low_clouds_cover IN
          /\ plot.low.covidx = ((f * Eighth) \div Resolution) + 1
          /\ plot.low.covidx \in 1..9
          /\ \A g \in 0..f :
                draw_low([station_plot_data EXCEPT !.low_clouds_cover = g]).covidx
                    <= plot.low.covidx

\* A fully covered sky has been drawn, with the highest index.
FullCoverDrawn ==
    /\ SkyDrawn
    /\ station_plot_data.sky_cover = Resolution
    /\ plot.sky.covidx = 9

\* The angle filled by the primitives of a list.
RECURSIVE FilledAngle(_)
FilledAngle(ops) ==
    IF ops = <<>> THEN 0
    ELSE (IF Head(ops).ink = "fill plot_color" THEN Head(ops).end - Head(ops).start ELSE 0)
            + FilledAngle(Tail(ops))

HasInverseLine(ops) == \E i \in 1..Len(ops) : ops[i] = diameter("plot_inverse")

\* What C17 says of every cover that was drawn, but for the fills.
SkyFillByBucketAlone ==
    LET f == station_plot_data.sky_cover
        b == plot.sky.covidx
    IN  /\ \A g \in Fractions : draw_sky(g).covidx = b => draw_sky(g).ops = plot.sky.ops
        /\ 2 * f = Resolution =>
              /\ b = 5
              /\ plot.sky.ops = <<ellipse_outline, pieslice(-90, 90), diameter("plot_color")>>
        /\ HasInverseLine(plot.sky.ops) <=> b = 7
        /\ \A g \in Fractions :
              (draw_sky(g).covidx \in 2..7 /\ draw_sky(g).covidx <= b /\ b <= 7) =>
                  FilledAngle(draw_sky(g).ops) <= FilledAngle(plot.sky.ops)

\* C17, as the code has it: the fill is a function of the bucket alone; a
\* cover of 0.5 gives bucket 5, a pie slice from -90 to 90 degrees and a
\* bisecting line; buckets 2 to 7 fill a quarter (2, 3), a half (4, 5),
\* three quarters (6) and the full circle (7); bucket 7 alone adds the
\* inverse-colour line.
SkyFillQuarterHalfThreeQuartersFull ==
    (SkyDrawn /\ station_plot_data.sky_cover # Null) =>
        /\ SkyFillByBucketAlone
        /\ plot.sky.covidx \in 2..7 =>
              FilledAngle(plot.sky.ops) =
                  CASE plot.sky.covidx \in {2, 3} -> 90
                    [] plot.sky.covidx \in {4, 5} -> 180
                    [] plot.sky.covidx = 6 -> 270
                    [] plot.sky.covidx = 7 -> 360

\* C17, as stated: the same, with a quarter, a half, then the full circle
\* as the fills of buckets 2 to 7.
SkyFillQuarterHalfFull ==
    (SkyDrawn /\ station_plot_data.sky_cover # Null) =>
        /\ SkyFillByBucketAlone
        /\ plot.sky.covidx \in 2..7 => FilledAngle(plot.sky.ops) \in {90, 180, 360}

\* A cover of bucket 6 has been drawn.
BucketSixDrawn ==
    /\ SkyDrawn
    /\ station_plot_data.sky_cover # Null
    /\ plot.sky.covidx = 6

Count(ops, what) == Cardinality({i \in 1..Len(ops) : ops[i] = what})
HasText(ops, what) == \E i \in 1..Len(ops) : ops[i].what = what
BarbOps == {"calm circle", "stem", "pennant", "long bar", "short bar"}

\* C18: in the finished station plot something is drawn for a quantity
\* exactly when its own value is not null: the sky cover, the wind speed,
\* the gust, and the type, cover and base of the low clouds.
DrawnIffOwnValuePresent ==
    plot.pc = "done" =>
        /\ Len(plot.sky.ops) > 0 <=> station_plot_data.sky_cover # Null
        /\ (\E i \in 1..Len(plot.wind.ops) : plot.wind.ops[i] \in BarbOps)
              <=> station_plot_data.speed # Null
        /\ Count(plot.wind.ops, "gust label") > 0 <=> station_plot_data.gust # Null
        /\ HasText(plot.low.ops, "type") <=> station_plot_data.low_clouds # Null
        /\ HasText(plot.low.ops, "cover") <=> station_plot_data.low_clouds_cover # Null
        /\ HasText(plot.low.ops, "height") <=> station_plot_data.low_clouds_base_m # Null

\* C19: for a speed s of at least 5 kt, floor(s / 50) pennants, then
\* floor((s mod 50) / 10) full barbs, then floor((s mod 10) / 5) half barbs
\* are drawn.
GreedyBarbDecomposition ==
    (WindDrawn /\ station_plot_data.speed # Null /\ station_plot_data.speed >= 5) =>
        LET s == station_plot_data.speed IN
        /\ Count(plot.wind.ops, "pennant") = s \div 50
        /\ Count(plot.wind.ops, "long bar") = (s % 50) \div 10
        /\ Count(plot.wind.ops, "short bar") = (s % 10) \div 5

present(body, t) == find(body, t) >= 0

\* The five tests of a rule as tests of presence: every descriptor, the
\* precipitation, one of the clouds unless any will do, the wind from the
\* lower limit up to the upper one, one of the visibilities.
rule_holds(item, body, wind) ==
    /\ \A i \in 1..Len(item.descriptor) : present(body, item.descriptor[i])
    /\ (Len(item.precip) = 0 \/ present(body, item.precip))
    /\ \/ Len(item.cloud) = 0
       \/ (Len(item.cloud) = 1 /\ item.cloud[1] = <<>>)
       \/ \E i \in 1..Len(item.cloud) : present(body, item.cloud[i])
    /\ wind >= item.wind[1] /\ wind < item.wind[2]
    /\ (Len(item.visibility) = 0
            \/ \E i \in 1..Len(item.visibility) : present(body, item.visibility[i]))

RulesFound == {selection.findIcon[i] : i \in 1..Len(selection.findIcon)}

\* C21: the rules found for a report are exactly those whose five tests
\* hold (descriptors present, precipitation present, one listed cloud
\* present or any cloud, low <= wind < high, one listed visibility
\* present), and for 09008KT 9999 OVC007 the rule of the overcast sky under
\* a low wind is among them.
FoundIffFivePredicatesHold ==
    selection.pc = "found" =>
        /\ \A n \in 1..Len(WI_DB) :
              n \in RulesFound <=> rule_holds(WI_DB[n], rawtext, report.wind)
        /\ report.raw = Overcast =>
              \E n \in RulesFound :
                  WI_DB[n].cloud = <<<<"O", "V", "C">>>> /\ WI_DB[n].wind = <<0, 21>>

\* The rule the choice is said to fall on among several: the first found
\* whose precipitation is in the body, the first found when there is none.
first_with_precip(found, body) ==
    LET with == {i \in 1..Len(found) :
                    WI_DB[found[i]].precip # <<>>
                        /\ present(body, WI_DB[found[i]].precip)}
    IN  IF with = {} THEN found[1]
        ELSE found[CHOOSE i \in with : \A j \in with : i <= j]

Chosen == selection.pc \in {"named", "raised", "returned"} /\ report.has_metar

\* C22: the icon chosen is the name of the only rule found; among several
\* rules found, that of the first whose precipitation the report has,
\* else that of the first found; the cloud icon when no rule is found.
ChosenByCountOfRulesFound ==
    Chosen =>
        LET found == selection.findIcon
        IN  /\ selection.raised = "no"
            /\ selection.icon =
                  IF Len(found) = 0 THEN <<"w", "i", "_", "c", "l", "o", "u", "d">>
                  ELSE IF Len(found) = 1 THEN WI_DB[found[1]].iconName
                  ELSE WI_DB[first_with_precip(found, rawtext)].iconName

\* A variant of an icon name, and whether the icon font has it.
variant_of(kind, icon) == WI_PREFIX \o kind \o icon
has_variant(kind, icon) == variant_of(kind, icon) \in report.icons

\* day_night was asked for the name of a rule.
AskedRuleName == variant.asked /\ variant.icon \in RuleNames

\* What day_night returns up to its last resort, which is given.
resolved(icon, day, last) ==
    IF icon = KW_CAVOK THEN (IF day THEN CAVOK_DAY ELSE CAVOK_NIGHT)
    ELSE IF \A kind \in Variants : ~has_variant(kind, icon) THEN DEFAULT_WEATHER_ICON
    ELSE IF ~day /\ has_variant(NIGHT, icon) THEN variant_of(NIGHT, icon)
    ELSE IF ~day /\ has_variant(NIGHT_ALT, icon) THEN variant_of(NIGHT_ALT, icon)
    ELSE IF has_variant(DAY, icon) THEN variant_of(DAY, icon)
    ELSE last

\* C23: day_night returns a name of the icon font or the default name: the
\* fixed day or night name for "clear"; the default when the font has no
\* variant of the icon; else the night or night-alt variant when it is not
\* day and the font has one, else the day variant if the font has it, else
\* the plain variant if the font has it, else the night variant, or failing
\* that the night-alt one.
ResolvesToExistingVariant ==
    AskedRuleName =>
        /\ variant.ret \in report.icons \cup {DEFAULT_WEATHER_ICON}
        /\ variant.ret =
              resolved(variant.icon, variant.day,
                       IF has_variant(<<>>, variant.icon) THEN variant_of(<<>>, variant.icon)
                       ELSE IF has_variant(NIGHT, variant.icon)
                       THEN variant_of(NIGHT, variant.icon)
                       ELSE variant_of(NIGHT_ALT, variant.icon))

\* C23 as stated: the last resort is the plain variant.
ResolvesToPlainAtLast ==
    AskedRuleName =>
        /\ variant.ret \in report.icons \cup {DEFAULT_WEATHER_ICON}
        /\ variant.ret =
              resolved(variant.icon, variant.day, variant_of(<<>>, variant.icon))

\* By day, a font with the night variant only of the icon asked for.
NightVariantByDay ==
    /\ AskedRuleName
    /\ variant.day
    /\ variant.icon = <<"f", "o", "g">>
    /\ has_variant(NIGHT, variant.icon)
    /\ \A kind \in Variants \ {NIGHT} : ~has_variant(kind, variant.icon)
    /\ variant.ret = <<"w", "i", "_", "n", "i", "g", "h", "t", "_", "f", "o", "g">>

\* The calls of update() that can be made in this state, each with the
\* instance as the call finds it and with force: the one of the redraw in
\* progress, and those of the callback of the station-identifier variable.
UpdateCalls ==
    (IF call.pc = "update" THEN {[s |-> self, force |-> FALSE]} ELSE {})
        \cup (IF self._inited /\ cfg.dataref
              THEN {[s |-> invalidate_previous(
                               [self EXCEPT !.station = from_icao(cfg, icao)]),
                     force |-> TRUE] :
                       icao \in {i \in Stations \cup {UnknownIcao} :
                                    ~(self.station # None /\ i = self.station)}}
              ELSE {})

\* The results of the calls of update() that return.
Returns ==
    {[before |-> u.s, r |-> update(u.s, cfg, u.force, position, c, o, now)] :
        u \in UpdateCalls, c \in CreateOutcomes, o \in FetchOutcomes}

\* A call that assigned the four host variables from the observation, then
\* the icon.
published(x) ==
    /\ x.r.writes = SinkNames \o <<"weather_icon">>
    /\ x.r.self.sinks = x.r.self.metar.raw
    /\ x.r.self.weather_icon = update_icon(x.r.self, cfg)

\* A call that assigned neither a host variable nor the icon.
untouched(x) ==
    /\ x.r.writes = <<>>
    /\ x.r.self.sinks = x.before.sinks
    /\ x.r.self.weather_icon = x.before.weather_icon

\* C24: an update() that returns True with a station tracked and an
\* observation held has set the four host variables to the values of the
\* observation, then selected the icon; without an observation it has
\* selected the icon only; an update() that returns False has assigned
\* neither.
PublishedWhenUpdatedWithData ==
    \A x \in Returns :
        ~x.r.raised =>
            /\ (x.r.ret /\ x.r.self.station # None /\ has_metar(x.r.self))
                    => published(x)
            /\ (x.r.ret /\ x.r.self.station # None /\ ~has_metar(x.r.self))
                    => /\ x.r.writes = <<"weather_icon">>
                       /\ x.r.self.sinks = x.before.sinks
                       /\ x.r.self.weather_icon = update_icon(x.r.self, cfg)
            /\ ~x.r.ret => untouched(x)

\* C24 as stated: every update() that returns True with a station tracked
\* has set the four host variables.
PublishedWhenUpdated ==
    \A x \in Returns :
        ~x.r.raised =>
            /\ (x.r.ret /\ x.r.self.station # None) => published(x)
            /\ ~x.r.ret => untouched(x)

\* The update() of a redraw has returned True and the host variables hold
\* the values of the observation just fetched.
RefreshPublished ==
    /\ call.pc = "render"
    /\ call.updated
    /\ has_metar(self)
    /\ self.sinks = self.metar.raw
    /\ lastFetch = now

\* C25: the update(force=True) of the callback of the station-identifier
\* variable never runs while a redraw holds _busy_updating, that is between
\* the entry of get_image_for_icon and its return.
CallbackRefreshNotDuringRedraw ==
    [][(\E icao \in Stations \cup {UnknownIcao} : simulator_variable_changed(icao))
            => (~self._busy_updating /\ call.pc = "idle")]_vars

\* The update() of the redraw is about to call get_station with a position
\* and a tracked station, and get_station gets as far as the lookup of the
\* nearest station, which finds one.
LookupReached ==
    /\ call.pc = "update"
    /\ self.update_position
    /\ self.station # None
    /\ position # NoPosition
    /\ ~(/\ self._last_updated # NoTime
         /\ ~at_default_station(self, cfg)
         /\ now - self._last_updated < MIN_UPDATE)
    /\ nearest(cfg, position) # None

FetchJustFailed ==
    /\ lastFetch # NoTime
    /\ self.station # None
    /\ self.metar = NoMetar

\* The containers could not be created in this update(): the try block
\* raised before any provider call.
CreationRaised == call'.pc = "render" /\ call'.fraise /\ lastFetch' = NoTime

\* C27: after an update() whose provider call raised, the next update()
\* for the same station calls the provider at once, however little time
\* has passed since the failed call.
FailedFetchRetriedAtOnce ==
    [][(UpdateStep /\ FetchJustFailed /\ self'.station = self.station
            /\ ~CreationRaised)
          => lastFetch' = now]_vars

\* The pages the raw text of a forecast decodes to.
pages_of(raw) == strip_empty_blocks(split_blocks(decode_taf(raw), <<>>))

\* A call of get_forecast_page on a forecast that returns.
PageReturned ==
    /\ \E page \in Pages, width \in Widths : ask_forecast_page(page, width)
    /\ weather_avwx.taf
    /\ ~forecast_page'.raised

\* C28: a call of get_forecast_page returns the page (page mod number of
\* pages) of the decoding of the raw text the forecast holds at the time
\* of the call, whatever was decoded before.
PagesFromCurrentRaw ==
    [][PageReturned =>
          forecast_page'.ret =
              page_text(pages_of(weather_avwx'._weather.raw),
                        forecast_page'.page, forecast_page'.width)]_vars

\* C29: check_weather returns True whenever the time elapsed since the
\* last check (WeatherAVWX) or the last update (WeatherOGIMET with timed
\* updates) exceeds the interval, however long the elapsed time is.
NeedsUpdateWheneverElapsed ==
    [][/\ (/\ ask_check_weather
           /\ weather_avwx._weather_last_checked # NoTime
           /\ utc - weather_avwx._weather_last_checked
                  > weather_avwx._weather_check_freq)
              => checked'.ret
       /\ (/\ ask_ogimet_check_weather
           /\ ogimet.has_weather
           /\ ogimet.timed_update
           /\ utc - ogimet._updated > ogimet.update_time)
              => checked'.ret]_vars

\* ------------------------------------------- the current weather symbol

\* The values of wx_code_map.
wx_values == {e[2] : e \in wx_code_map}

\* The lists of present-weather items turned into current_weather_code: one
\* key of the dictionary (random_weather), or the codes of a report.
WeatherLists ==
    {<<k>> : k \in wx_keys} \cup {<<t>> : t \in Tokens(MaxPairChunks + 1)}

\* The symbol with its alternate left out.
current_weather_text_base(chrs, code) == alt_char(chrs, code % 1000, 0)

\* current_weather.alt_char(code=int(code), alt=0); the code is an integer
\* of wx_code_map, which int leaves as it is.
current_weather_text(chrs, code) == alt_char(chrs, code, 0)

WeatherCodeInit ==
    /\ RepIdle
    /\ PanelsIdle
    /\ codes \in WeatherLists
    /\ wx_sym_list = <<>>
    /\ mapping = mapping_start("current_weather")
    /\ glyph = NoGlyph
    /\ PlotIdle
    /\ RestIdle

\* draw_current_weather_code, on codenums[0] of get_plot_current_weather_code
\* or codes[0] of random_weather; it returns at once without a code.
draw_current_weather_code ==
    /\ mapping.pc = "done"
    /\ Len(wx_sym_list) = Len(codes)
    /\ Len(wx_sym_list) > 0
    /\ glyph' = [code |-> wx_sym_list[1], alt |-> 0,
                 ret |-> current_weather_text(mapping.chrs, wx_sym_list[1]),
                 asked |-> TRUE]
    /\ UNCHANGED <<mapping, rep_vars, panel_vars, wx_vars, plot_vars, rest_vars>>

WeatherCodeNext ==
    \/ CodePointMapping_init
    \/ wx_code_to_numeric
    \/ draw_current_weather_code

WeatherCodeSpec == WeatherCodeInit /\ [][WeatherCodeNext]_vars

\* C30: every non-zero value of wx_code_map, the alternate-coded values
\* 1000*alt + code included, is drawn as a symbol of the current_weather
\* table that is not None, and no other non-zero value of the dictionary is
\* drawn as the same code point.
EveryWeatherCodeHasItsOwnGlyph ==
    (glyph.asked /\ glyph.code # 0) =>
        /\ glyph.code \in wx_values
        /\ glyph.ret.kind = "str"
        /\ glyph.ret.chr # EmptyString
        /\ \A v \in wx_values \ {0, glyph.code} :
               current_weather_text(mapping.chrs, v) # glyph.ret

\* The first alternate of code 95 is drawn, one code point after 95's own.
AlternateOf95Drawn ==
    /\ glyph.asked
    /\ glyph.code = 1095
    /\ glyph.ret = [kind |-> "str", chr |-> chr(59908)]
    /\ current_weather_text(mapping.chrs, 95) = [kind |-> "str", chr |-> chr(59907)]

====
